---- MODULE Spec2Model ----
(***************************************************************************)
(* Graph construction and serving pipeline of the research-network graph.  *)
(*                                                                         *)
(*   - LabResolver:    DynamoDBService.fuzzyMatchLab / findBestLabMatch    *)
(*   - RecordFetcher:  DynamoDBService.fetch* (scans and batched lookups)  *)
(*   - GraphAssembler: DynamoDBService.fetchGraphData                      *)
(*   - CacheStore:     backend get_graph_data / load_graph_cache /         *)
(*                     rebuild-cache, the in-memory _graph_cache           *)
(***************************************************************************)
EXTENDS Integers, Sequences, FiniteSets, TLC

----------------------------------------------------------------------------
(* Strings.  A JavaScript string is modelled by the sequence of its        *)
(* characters; CharsTable gives the characters of every string literal the *)
(* model uses.                                                             *)

CharsTable ==

   ("aims_lab" :> <<"a","i","m","s","_","l","a","b">>) @@
   ("AIMS Lab" :> <<"A","I","M","S"," ","L","a","b">>) @@
   ("behavioral_data_science_group" :> <<"b","e","h","a","v","i","o","r","a","l","_","d","a","t","a","_","s","c","i","e","n","c","e","_","g","r","o","u","p">>) @@
   ("Behavioral Data Science Group" :> <<"B","e","h","a","v","i","o","r","a","l"," ","D","a","t","a"," ","S","c","i","e","n","c","e"," ","G","r","o","u","p">>) @@
   ("bespoke_silicon_group" :> <<"b","e","s","p","o","k","e","_","s","i","l","i","c","o","n","_","g","r","o","u","p">>) @@
   ("Bespoke Silicon Group" :> <<"B","e","s","p","o","k","e"," ","S","i","l","i","c","o","n"," ","G","r","o","u","p">>) @@
   ("database_group" :> <<"d","a","t","a","b","a","s","e","_","g","r","o","u","p">>) @@
   ("Database Group" :> <<"D","a","t","a","b","a","s","e"," ","G","r","o","u","p">>) @@
   ("h2_lab" :> <<"h","2","_","l","a","b">>) @@
   ("H2 Lab" :> <<"H","2"," ","L","a","b">>) @@
   ("human_centered_robotics_lab" :> <<"h","u","m","a","n","_","c","e","n","t","e","r","e","d","_","r","o","b","o","t","i","c","s","_","l","a","b">>) @@
   ("Human-Centered Robotics Lab" :> <<"H","u","m","a","n","-","C","e","n","t","e","r","e","d"," ","R","o","b","o","t","i","c","s"," ","L","a","b">>) @@
   ("ictd_lab" :> <<"i","c","t","d","_","l","a","b">>) @@
   ("Information and Communication Technology for Development (ICTD) Lab" :> <<"I","n","f","o","r","m","a","t","i","o","n"," ","a","n","d"," ","C","o","m","m","u","n","i","c","a","t","i","o","n"," ","T","e","c","h","n","o","l","o","g","y"," ","f","o","r"," ","D","e","v","e","l","o","p","m","e","n","t"," ","(","I","C","T","D",")"," ","L","a","b">>) @@
   ("interactive_data_lab" :> <<"i","n","t","e","r","a","c","t","i","v","e","_","d","a","t","a","_","l","a","b">>) @@
   ("Interactive Data Lab" :> <<"I","n","t","e","r","a","c","t","i","v","e"," ","D","a","t","a"," ","L","a","b">>) @@
   ("make4all_group" :> <<"m","a","k","e","4","a","l","l","_","g","r","o","u","p">>) @@
   ("Make4all Group" :> <<"M","a","k","e","4","a","l","l"," ","G","r","o","u","p">>) @@
   ("makeability_lab" :> <<"m","a","k","e","a","b","i","l","i","t","y","_","l","a","b">>) @@
   ("Makeability Lab" :> <<"M","a","k","e","a","b","i","l","i","t","y"," ","L","a","b">>) @@
   ("molecular_information_systems_lab" :> <<"m","o","l","e","c","u","l","a","r","_","i","n","f","o","r","m","a","t","i","o","n","_","s","y","s","t","e","m","s","_","l","a","b">>) @@
   ("Molecular Information Systems Lab (MISL)" :> <<"M","o","l","e","c","u","l","a","r"," ","I","n","f","o","r","m","a","t","i","o","n"," ","S","y","s","t","e","m","s"," ","L","a","b"," ","(","M","I","S","L",")">>) @@
   ("mostafavi_lab" :> <<"m","o","s","t","a","f","a","v","i","_","l","a","b">>) @@
   ("Mostafavi Lab" :> <<"M","o","s","t","a","f","a","v","i"," ","L","a","b">>) @@
   ("personal_robotics_lab" :> <<"p","e","r","s","o","n","a","l","_","r","o","b","o","t","i","c","s","_","l","a","b">>) @@
   ("Personal Robotics Lab" :> <<"P","e","r","s","o","n","a","l"," ","R","o","b","o","t","i","c","s"," ","L","a","b">>) @@
   ("raivn_lab" :> <<"r","a","i","v","n","_","l","a","b">>) @@
   ("RAIVN Lab" :> <<"R","A","I","V","N"," ","L","a","b">>) @@
   ("robot_learning_lab" :> <<"r","o","b","o","t","_","l","e","a","r","n","i","n","g","_","l","a","b">>) @@
   ("Robot Learning Lab" :> <<"R","o","b","o","t"," ","L","e","a","r","n","i","n","g"," ","L","a","b">>) @@
   ("sampl" :> <<"s","a","m","p","l">>) @@
   ("SAMPL" :> <<"S","A","M","P","L">>) @@
   ("social_futures_lab" :> <<"s","o","c","i","a","l","_","f","u","t","u","r","e","s","_","l","a","b">>) @@
   ("Social Futures Lab" :> <<"S","o","c","i","a","l"," ","F","u","t","u","r","e","s"," ","L","a","b">>) @@
   ("social_rl_lab" :> <<"s","o","c","i","a","l","_","r","l","_","l","a","b">>) @@
   ("Social RL Lab" :> <<"S","o","c","i","a","l"," ","R","L"," ","L","a","b">>) @@
   ("snail_lab" :> <<"s","n","a","i","l","_","l","a","b">>) @@
   ("Systems Neuroscience & AI Lab (SNAIL)" :> <<"S","y","s","t","e","m","s"," ","N","e","u","r","o","s","c","i","e","n","c","e"," ","&"," ","A","I"," ","L","a","b"," ","(","S","N","A","I","L",")">>) @@
   ("theory_of_computation_group" :> <<"t","h","e","o","r","y","_","o","f","_","c","o","m","p","u","t","a","t","i","o","n","_","g","r","o","u","p">>) @@
   ("Theory of Computation Group" :> <<"T","h","e","o","r","y"," ","o","f"," ","C","o","m","p","u","t","a","t","i","o","n"," ","G","r","o","u","p">>) @@
   ("tsvetshop" :> <<"t","s","v","e","t","s","h","o","p">>) @@
   ("Tsvetshop" :> <<"T","s","v","e","t","s","h","o","p">>) @@
   ("ubicomp_lab" :> <<"u","b","i","c","o","m","p","_","l","a","b">>) @@
   ("UbiComp Lab" :> <<"U","b","i","C","o","m","p"," ","L","a","b">>) @@
   ("uw_reality_lab" :> <<"u","w","_","r","e","a","l","i","t","y","_","l","a","b">>) @@
   ("UW Reality Lab" :> <<"U","W"," ","R","e","a","l","i","t","y"," ","L","a","b">>) @@
   ("weird_lab" :> <<"w","e","i","r","d","_","l","a","b">>) @@
   ("WEIRD Lab" :> <<"W","E","I","R","D"," ","L","a","b">>) @@
   ("wildlab" :> <<"w","i","l","d","l","a","b">>) @@
   ("Wildlab" :> <<"W","i","l","d","l","a","b">>) @@
   ("" :> <<>>) @@
   ("--" :> <<"-","-">>) @@
   ("AIMS" :> <<"A","I","M","S">>) @@
   ("aims" :> <<"a","i","m","s">>) @@
   ("xyz" :> <<"x","y","z">>) @@
   ("UbiComp" :> <<"U","b","i","C","o","m","p">>) @@
   ("Robotics Lab" :> <<"R","o","b","o","t","i","c","s"," ","L","a","b">>) @@
   ("aimsLab" :> <<"a","i","m","s","L","a","b">>) @@
   ("Data" :> <<"D","a","t","a">>) @@
   ("nlp" :> <<"n","l","p">>) @@
   ("NLP" :> <<"N","L","P">>) @@
   ("vision" :> <<"v","i","s","i","o","n">>) @@
   ("50" :> <<"5","0">>) @@
   ("101" :> <<"1","0","1">>) @@
   ("abc" :> <<"a","b","c">>) @@
   (" " :> <<" ">>) @@
   ("lab" :> <<"l","a","b">>) @@
   (" lab " :> <<" ","l","a","b"," ">>) @@
   ("r" :> <<"r">>) @@
   ("r1" :> <<"r","1">>) @@
   ("r2" :> <<"r","2">>)

Chars(s) == CharsTable[s]

UpperChars ==
   <<"A","B","C","D","E","F","G","H","I","J","K","L","M",
     "N","O","P","Q","R","S","T","U","V","W","X","Y","Z">>

LowerChars ==
   <<"a","b","c","d","e","f","g","h","i","j","k","l","m",
     "n","o","p","q","r","s","t","u","v","w","x","y","z">>

DigitChars == {"0","1","2","3","4","5","6","7","8","9"}

Range(f) == {f[i] : i \in DOMAIN f}

IsUpper(c) == c \in Range(UpperChars)

\* [a-z0-9]
IsLowerAlnum(c) == c \in Range(LowerChars) \cup DigitChars

\* [\s_-]
IsSeparator(c) == c \in {" ", "_", "-"}

\* String.prototype.toLowerCase, one character
toLowerChar(c) ==
   IF IsUpper(c)
   THEN LowerChars[CHOOSE i \in DOMAIN UpperChars : UpperChars[i] = c]
   ELSE c

toLowerCase(s) == [i \in DOMAIN s |-> toLowerChar(s[i])]

\* str.toLowerCase().replace(/[^a-z0-9]/g, '')
normalize(s) == SelectSeq(toLowerCase(s), IsLowerAlnum)

RECURSIVE trimStart(_)
trimStart(s) == IF s # <<>> /\ Head(s) = " " THEN trimStart(Tail(s)) ELSE s

RECURSIVE trimEnd(_)
trimEnd(s) ==
   IF s # <<>> /\ s[Len(s)] = " " THEN trimEnd(SubSeq(s, 1, Len(s) - 1)) ELSE s

\* String.prototype.trim, for strings whose white space is blanks
trim(s) == trimEnd(trimStart(s))

\* The string of the given characters.
StringOf(s) == CHOOSE str \in DOMAIN CharsTable : CharsTable[str] = s

\* a.includes(b)
includes(a, b) ==
   \E i \in 0..(Len(a) - Len(b)) : SubSeq(a, i + 1, i + Len(b)) = b

\* Length of the run of separator characters of s that starts at index q.
RECURSIVE SeparatorRun(_, _)
SeparatorRun(s, q) ==
   IF q <= Len(s) /\ IsSeparator(s[q]) THEN 1 + SeparatorRun(s, q + 1) ELSE 0

\* s.split(/(?=[A-Z])|[\s_-]+/): p is the start of the piece being read, q
\* the position the pattern is tried at (both 1-based).  An empty match at
\* the start of the piece does not split.
RECURSIVE SplitWordsFrom(_, _, _)
SplitWordsFrom(s, p, q) ==
   IF q > Len(s) THEN << SubSeq(s, p, Len(s)) >>
   ELSE IF IsUpper(s[q])
        THEN IF q = p THEN SplitWordsFrom(s, p, q + 1)
             ELSE << SubSeq(s, p, q - 1) >> \o SplitWordsFrom(s, q, q)
   ELSE IF IsSeparator(s[q])
        THEN << SubSeq(s, p, q - 1) >>
               \o SplitWordsFrom(s, q + SeparatorRun(s, q), q + SeparatorRun(s, q))
   ELSE SplitWordsFrom(s, p, q + 1)

SplitWords(s) == SplitWordsFrom(s, 1, 1)

\* s.split('_')
RECURSIVE SplitUnderscoreFrom(_, _, _)
SplitUnderscoreFrom(s, p, q) ==
   IF q > Len(s) THEN << SubSeq(s, p, Len(s)) >>
   ELSE IF s[q] = "_"
        THEN << SubSeq(s, p, q - 1) >> \o SplitUnderscoreFrom(s, q + 1, q + 1)
   ELSE SplitUnderscoreFrom(s, p, q + 1)

SplitUnderscore(s) == SplitUnderscoreFrom(s, 1, 1)

\* .filter(w => w.length > 2)
LongWord(w) == Len(w) > 2

----------------------------------------------------------------------------
(* LabResolver.  A score is the rational <<numerator, denominator>>.       *)

ScoreExact == <<10, 10>>

ScoreSubstring == <<8, 10>>

ScoreThreshold == <<3, 10>>

\* score >= bestScore in place of score > bestScore.
ScoreGreaterOrEqual(a, b) == a[1] * b[2] >= b[1] * a[2]

ScoreGreater(a, b) == a[1] * b[2] > b[1] * a[2]

getLabs ==
   <<
      [lab_id |-> "aims_lab", name |-> "AIMS Lab"],
      [lab_id |-> "behavioral_data_science_group", name |-> "Behavioral Data Science Group"],
      [lab_id |-> "bespoke_silicon_group", name |-> "Bespoke Silicon Group"],
      [lab_id |-> "database_group", name |-> "Database Group"],
      [lab_id |-> "h2_lab", name |-> "H2 Lab"],
      [lab_id |-> "human_centered_robotics_lab", name |-> "Human-Centered Robotics Lab"],
      [lab_id |-> "ictd_lab", name |-> "Information and Communication Technology for Development (ICTD) Lab"],
      [lab_id |-> "interactive_data_lab", name |-> "Interactive Data Lab"],
      [lab_id |-> "make4all_group", name |-> "Make4all Group"],
      [lab_id |-> "makeability_lab", name |-> "Makeability Lab"],
      [lab_id |-> "molecular_information_systems_lab", name |-> "Molecular Information Systems Lab (MISL)"],
      [lab_id |-> "mostafavi_lab", name |-> "Mostafavi Lab"],
      [lab_id |-> "personal_robotics_lab", name |-> "Personal Robotics Lab"],
      [lab_id |-> "raivn_lab", name |-> "RAIVN Lab"],
      [lab_id |-> "robot_learning_lab", name |-> "Robot Learning Lab"],
      [lab_id |-> "sampl", name |-> "SAMPL"],
      [lab_id |-> "social_futures_lab", name |-> "Social Futures Lab"],
      [lab_id |-> "social_rl_lab", name |-> "Social RL Lab"],
      [lab_id |-> "snail_lab", name |-> "Systems Neuroscience & AI Lab (SNAIL)"],
      [lab_id |-> "theory_of_computation_group", name |-> "Theory of Computation Group"],
      [lab_id |-> "tsvetshop", name |-> "Tsvetshop"],
      [lab_id |-> "ubicomp_lab", name |-> "UbiComp Lab"],
      [lab_id |-> "uw_reality_lab", name |-> "UW Reality Lab"],
      [lab_id |-> "weird_lab", name |-> "WEIRD Lab"],
      [lab_id |-> "wildlab", name |-> "Wildlab"]
   >>

\* MatchScore without the two substring stages.
MatchScoreExactOnly(normalizedResearcherLab, normalizedLabId, normalizedLabName) ==
   IF \/ normalizedResearcherLab = normalizedLabId
      \/ normalizedResearcherLab = normalizedLabName
   THEN ScoreExact
   ELSE <<0, 1>>

\* MatchScore testing for a substring before it tests for equality.
MatchScoreSubstringFirst(normalizedResearcherLab, normalizedLabId, normalizedLabName) ==
   IF \/ includes(normalizedResearcherLab, normalizedLabId)
      \/ includes(normalizedLabId, normalizedResearcherLab)
      \/ includes(normalizedResearcherLab, normalizedLabName)
      \/ includes(normalizedLabName, normalizedResearcherLab)
   THEN ScoreSubstring
   ELSE IF \/ normalizedResearcherLab = normalizedLabId
           \/ normalizedResearcherLab = normalizedLabName
   THEN ScoreExact
   ELSE <<0, 1>>

\* The body of fuzzyMatchLab once its three strings are normalized.
MatchScore(normalizedResearcherLab, normalizedLabId, normalizedLabName) ==
   LET researcherWords == SelectSeq(SplitWords(normalizedResearcherLab), LongWord)
       labWords == SelectSeq(SplitUnderscore(normalizedLabId)
                               \o SplitWords(normalizedLabName), LongWord)
       matches(words, others) ==
          Cardinality({i \in DOMAIN words :
             \E j \in DOMAIN others :
                \/ includes(others[j], words[i])
                \/ includes(words[i], others[j])})
       ratio(words, others) ==
          IF Len(words) > 0 THEN <<matches(words, others), Len(words)>> ELSE <<0, 1>>
   IN IF \/ normalizedResearcherLab = normalizedLabId
         \/ normalizedResearcherLab = normalizedLabName
      THEN ScoreExact
      ELSE IF \/ includes(normalizedResearcherLab, normalizedLabId)
              \/ includes(normalizedLabId, normalizedResearcherLab)
      THEN ScoreSubstring
      ELSE IF \/ includes(normalizedResearcherLab, normalizedLabName)
              \/ includes(normalizedLabName, normalizedResearcherLab)
      THEN ScoreSubstring
      ELSE ratio(researcherWords, labWords)

fuzzyMatchLab(researcherLabName, labId, labName) ==
   MatchScore(normalize(Chars(researcherLabName)), normalize(Chars(labId)),
              normalize(Chars(labName)))

NoLab == [lab_id |-> "null", name |-> "null"]

\* The loop of findBestLabMatch over labs[i..], carrying bestMatch/bestScore.
RECURSIVE BestLabFrom(_, _, _, _, _)
RECURSIVE BestLabStep(_, _, _, _, _, _)
BestLabFrom(researcherLabName, labs, i, bestMatch, bestScore) ==
   IF i > Len(labs) THEN bestMatch
   ELSE BestLabStep(researcherLabName, labs, i, bestMatch, bestScore,
                    fuzzyMatchLab(researcherLabName, labs[i].lab_id, labs[i].name))

\* if (score > bestScore) { bestScore = score; bestMatch = lab; }
BestLabStep(researcherLabName, labs, i, bestMatch, bestScore, score) ==
   IF ScoreGreater(score, bestScore)
   THEN BestLabFrom(researcherLabName, labs, i + 1, labs[i], score)
   ELSE BestLabFrom(researcherLabName, labs, i + 1, bestMatch, bestScore)

findBestLabMatch(researcherLabName, labs) ==
   BestLabFrom(researcherLabName, labs, 1, NoLab, ScoreThreshold)

\* The free-text lab names researcher records carry in the model.
LabNames == {"", "--", "AIMS", "AIMS Lab", "xyz", "SAMPL", "UbiComp", "Robotics Lab",
             "aimsLab", "Data"}

\* findBestLabMatch(name, getLabs()) for every name of LabNames, computed once.
MatchedLab == [name \in LabNames |-> findBestLabMatch(name, getLabs)] @@ <<>>

----------------------------------------------------------------------------
(* Records.  An optional field of a TypeScript object that is undefined is *)
(* a field the record does not have.                                       *)

Has(r, f) == f \in DOMAIN r

\* !value, for an optional string field
Falsy(r, f) == ~Has(r, f) \/ r[f] = ""

Optional(f, r, g) == IF Has(r, g) THEN f :> r[g] ELSE <<>>

RECURSIVE Flatten(_)
Flatten(ss) == IF ss = <<>> THEN <<>> ELSE Head(ss) \o Flatten(Tail(ss))

\* array.filter((x, index, array) => array.indexOf(x) === index)
RemoveDuplicates(s) ==
   LET first(i) == \A j \in 1..(i - 1) : s[j] # s[i]
       keep == {i \in DOMAIN s : first(i)}
       RECURSIVE pick(_)
       pick(i) == IF i > Len(s) THEN <<>>
                  ELSE IF i \in keep THEN <<s[i]>> \o pick(i + 1) ELSE pick(i + 1)
   IN pick(1)

\* UTF-16 code unit of a character
CharCode(c) ==
   IF IsUpper(c) THEN 64 + (CHOOSE i \in DOMAIN UpperChars : UpperChars[i] = c)
   ELSE IF c \in Range(LowerChars)
   THEN 96 + (CHOOSE i \in DOMAIN LowerChars : LowerChars[i] = c)
   ELSE IF c \in DigitChars THEN 48 + (CHOOSE n \in 0..9 : ToString(n) = c)
   ELSE IF c = "_" THEN 95
   ELSE IF c = "-" THEN 45
   ELSE IF c = ")" THEN 41
   ELSE IF c = "(" THEN 40
   ELSE IF c = "&" THEN 38
   ELSE 32

\* a < b in the order of Array.prototype.sort without a comparator
RECURSIVE CharsLess(_, _)
CharsLess(a, b) ==
   IF b = <<>> THEN FALSE
   ELSE IF a = <<>> THEN TRUE
   ELSE IF CharCode(Head(a)) # CharCode(Head(b))
   THEN CharCode(Head(a)) < CharCode(Head(b))
   ELSE CharsLess(Tail(a), Tail(b))

StringLess(a, b) == CharsLess(Chars(a), Chars(b))

RECURSIVE InsertSorted(_, _)
InsertSorted(x, s) ==
   IF s = <<>> THEN <<x>>
   ELSE IF StringLess(x, Head(s)) THEN <<x>> \o s
   ELSE <<Head(s)>> \o InsertSorted(x, Tail(s))

\* The array left in the order it had.
SortSkipped(s) == s

\* array.sort(); stable
RECURSIVE Sort(_)
Sort(s) == IF s = <<>> THEN <<>> ELSE InsertSorted(s[Len(s)], Sort(SubSeq(s, 1, Len(s) - 1)))

----------------------------------------------------------------------------
(* RecordFetcher.  db is the content of the store's tables; failing is the *)
(* set of tables whose requests fail during the pass.                      *)

FetchCalls ==
   {"researchers", "paper-edges", "advisor_edges",
    "metrics", "descriptions", "library", "papers"}

\* DynamoDB's per-request key limit of BatchGet
BatchKeyLimit == 100

Threw == [threw |-> TRUE, items |-> <<>>]

Returned(items) == [threw |-> FALSE, items |-> items]

\* fetchResearchers returning an empty list where it rethrows.
fetchResearchersSwallowing(db, failing) ==
   IF "researchers" \in failing THEN Returned(<<>>) ELSE Returned(db.researchers)

fetchResearchers(db, failing) ==
   IF "researchers" \in failing THEN Threw ELSE Returned(db.researchers)

fetchPaperEdges(db, failing) ==
   IF "paper-edges" \in failing THEN Threw ELSE Returned(db.paperEdges)

fetchAdvisorEdges(db, failing) ==
   IF "advisor_edges" \in failing THEN Threw ELSE Returned(db.advisorEdges)

fetchLibraryEntries(db, failing, researcherId) ==
   IF researcherId = "" THEN <<>>
   ELSE IF "library" \in failing THEN <<>>
   ELSE LET mine(e) == e.researcher_id = researcherId
        IN SelectSeq(db.library, mine)

\* The items of a table whose key is among the requested keys.
BatchGet(table, key, ids) ==
   LET keys == Range(ids)
       wanted(item) == item[key] \in keys
   IN SelectSeq(table, wanted)

\* Batches whose slices stop one id short: ids.slice(i, i + 99).
RECURSIVE BatchesShortSlice(_, _)
BatchesShortSlice(ids, i) ==
   IF i > Len(ids) THEN <<>>
   ELSE << SubSeq(ids, i, IF i + BatchKeyLimit - 2 < Len(ids)
                          THEN i + BatchKeyLimit - 2 ELSE Len(ids)) >>
          \o BatchesShortSlice(ids, i + BatchKeyLimit)

\* for (let i = 0; i < ids.length; i += 100) batches.push(ids.slice(i, i + 100))
RECURSIVE Batches(_, _)
Batches(ids, i) ==
   IF i > Len(ids) THEN <<>>
   ELSE << SubSeq(ids, i, IF i + BatchKeyLimit - 1 < Len(ids)
                          THEN i + BatchKeyLimit - 1 ELSE Len(ids)) >>
          \o Batches(ids, i + BatchKeyLimit)

fetchPapers(db, failing, documentIds) ==
   IF documentIds = <<>> THEN <<>>
   ELSE IF "papers" \in failing \/ Len(documentIds) > BatchKeyLimit THEN <<>>
   ELSE BatchGet(db.papers, "document_id", documentIds)

ValidInfluence(n) == n >= 0 /\ n <= 100

\* An attribute value as the document client hands it over: a number, a
\* string or null.
Num(n) == [type |-> "number", n |-> n]

Str(str) == [type |-> "string", str |-> str]

Null == [type |-> "null"]

NaN == [nan |-> TRUE, n |-> 0]

Finite(n) == [nan |-> FALSE, n |-> n]

DigitValue(c) == CHOOSE n \in 0..9 : ToString(n) = c

RECURSIVE DecimalValue(_)
DecimalValue(s) ==
   IF s = <<>> THEN 0
   ELSE 10 * DecimalValue(SubSeq(s, 1, Len(s) - 1)) + DigitValue(s[Len(s)])

\* Number(str) for a string without white space, sign, point or exponent:
\* 0 for the empty string, the value of a decimal numeral, NaN otherwise.
StringToNumber(s) ==
   IF s = <<>> THEN Finite(0)
   ELSE IF \A i \in DOMAIN s : s[i] \in DigitChars THEN Finite(DecimalValue(s))
   ELSE NaN

\* Number(value)
ToNumber(value) ==
   IF value.type = "number" THEN Finite(value.n)
   ELSE IF value.type = "string" THEN StringToNumber(Chars(value.str))
   ELSE Finite(0)

\* The item fetchMetrics returns for a metric whose influence parsed to
\* parsedInfluence.
CheckedMetric(researcherId, parsedInfluence) ==
   IF parsedInfluence.nan \/ ~ValidInfluence(parsedInfluence.n)
   THEN [researcher_id |-> researcherId]
   ELSE [researcher_id |-> researcherId, influence |-> parsedInfluence.n]

\* CheckedMetric clamping an influence outside 0..100 to the nearer end.
CheckedMetricClamped(researcherId, parsedInfluence) ==
   IF parsedInfluence.nan THEN [researcher_id |-> researcherId]
   ELSE [researcher_id |-> researcherId,
         influence |-> IF parsedInfluence.n < 0 THEN 0
                       ELSE IF parsedInfluence.n > 100 THEN 100
                       ELSE parsedInfluence.n]

\* allMetrics.map(metric => ...): influence !== undefined && influence !==
\* null ? Number(influence) : undefined, then the validity test.
ParsedMetric(metric) ==
   IF ~Has(metric, "influence") THEN [researcher_id |-> metric.researcher_id]
   ELSE IF metric.influence = Null THEN [researcher_id |-> metric.researcher_id]
   ELSE CheckedMetric(metric.researcher_id, ToNumber(metric.influence))

\* allDescriptions.map(desc => ({researcher_id, about: desc.about || ''}))
FilledDescription(desc) ==
   [researcher_id |-> desc.researcher_id,
    about |-> IF Falsy(desc, "about") THEN "" ELSE desc.about]

fetchMetrics(db, failing, researcherIds) ==
   IF researcherIds = <<>> THEN <<>>
   ELSE IF "metrics" \in failing THEN <<>>
   ELSE LET get(batch) == BatchGet(db.metrics, "researcher_id", batch)
            batches == Batches(researcherIds, 1)
            allMetrics == Flatten([i \in DOMAIN batches |-> get(batches[i])])
        IN [i \in DOMAIN allMetrics |-> ParsedMetric(allMetrics[i])]

fetchDescriptions(db, failing, researcherIds) ==
   IF researcherIds = <<>> THEN <<>>
   ELSE IF "descriptions" \in failing THEN <<>>
   ELSE LET get(batch) == BatchGet(db.descriptions, "researcher_id", batch)
            batches == Batches(researcherIds, 1)
            allDescriptions == Flatten([i \in DOMAIN batches |-> get(batches[i])])
        IN [i \in DOMAIN allDescriptions |-> FilledDescription(allDescriptions[i])]

----------------------------------------------------------------------------
(* GraphAssembler.                                                         *)

\* new Map(); items.forEach(item => map.set(item.researcher_id, item))
MapHas(items, id) == \E i \in DOMAIN items : items[i].researcher_id = id

MapGet(items, id) ==
   items[CHOOSE i \in DOMAIN items :
            /\ items[i].researcher_id = id
            /\ \A j \in DOMAIN items : items[j].researcher_id = id => j <= i]

EmptySnapshot == [nodes |-> <<>>, links |-> <<>>]

ResearcherNode(db, failing, metrics, descriptions, researcher) ==
   LET libraryEntries == fetchLibraryEntries(db, failing, researcher.researcher_id)
       documentId(entry) == entry.document_id
       documentIds == [i \in DOMAIN libraryEntries |-> documentId(libraryEntries[i])]
       papers == fetchPapers(db, failing, documentIds)
       tagsOf(paper) == IF Has(paper, "tags") THEN paper.tags ELSE <<>>
       allTags == Sort(RemoveDuplicates(Flatten([i \in DOMAIN papers |-> tagsOf(papers[i])])))
       id == researcher.researcher_id
   IN [id |-> id, name |-> researcher.name, val |-> 1, type |-> "researcher",
       papers |-> papers, tags |-> allTags]
      @@ Optional("advisor", researcher, "advisor")
      @@ Optional("labs", researcher, "labs")
      @@ (IF MapHas(metrics, id)
          THEN Optional("influence", MapGet(metrics, id), "influence") ELSE <<>>)
      @@ (IF MapHas(descriptions, id)
          THEN Optional("about", MapGet(descriptions, id), "about") ELSE <<>>)

\* A lab node given the weight of a researcher node.
LabNodeWeightOne(lab) == [id |-> lab.lab_id, name |-> lab.name, val |-> 1, type |-> "lab"]

LabNode(lab) == [id |-> lab.lab_id, name |-> lab.name, val |-> 2, type |-> "lab"]

\* PaperLinks without the existence filter on the two endpoints.
PaperLinksUnfiltered(researchers, paperEdges) ==
   LET link(edge) == [source |-> edge.researcher_one_id,
                      target |-> edge.researcher_two_id, type |-> "paper"]
   IN [i \in DOMAIN paperEdges |-> link(paperEdges[i])]

PaperLinks(researchers, paperEdges) ==
   LET exists(edge) == /\ MapHas(researchers, edge.researcher_one_id)
                       /\ MapHas(researchers, edge.researcher_two_id)
       link(edge) == [source |-> edge.researcher_one_id,
                      target |-> edge.researcher_two_id, type |-> "paper"]
       valid == SelectSeq(paperEdges, exists)
   IN [i \in DOMAIN valid |-> link(valid[i])]

\* AdvisorLinks with source and target exchanged.
AdvisorLinksReversed(researchers, advisorEdges) ==
   LET exists(edge) == /\ MapHas(researchers, edge.advisee_id)
                       /\ MapHas(researchers, edge.advisor_id)
       link(edge) == [source |-> edge.advisor_id,
                      target |-> edge.advisee_id, type |-> "advisor"]
       valid == SelectSeq(advisorEdges, exists)
   IN [i \in DOMAIN valid |-> link(valid[i])]

AdvisorLinks(researchers, advisorEdges) ==
   LET exists(edge) == /\ MapHas(researchers, edge.advisee_id)
                       /\ MapHas(researchers, edge.advisor_id)
       link(edge) == [source |-> edge.advisee_id,
                      target |-> edge.advisor_id, type |-> "advisor"]
       valid == SelectSeq(advisorEdges, exists)
   IN [i \in DOMAIN valid |-> link(valid[i])]

\* A link whose target is the lab's display name.
LabLinkToName(researcherId, matchedLab) ==
   IF matchedLab # NoLab
   THEN << [source |-> researcherId, target |-> matchedLab.name,
            type |-> "researcher_lab"] >>
   ELSE <<>>

\* if (matchedLab) researcherLabLinks.push({...})
LabLink(researcherId, matchedLab) ==
   IF matchedLab # NoLab
   THEN << [source |-> researcherId, target |-> matchedLab.lab_id,
            type |-> "researcher_lab"] >>
   ELSE <<>>

\* ResearcherLabLinks without the test of researcher.advisor.
ResearcherLabLinksAnyAdvisor(researchers, labs) ==
   LET linksOf(researcher) ==
          IF Has(researcher, "labs") /\ Len(researcher.labs) > 0
          THEN LET linkFor(researcherLabName) ==
                      LabLink(researcher.researcher_id, MatchedLab[researcherLabName])
               IN Flatten([i \in DOMAIN researcher.labs |-> linkFor(researcher.labs[i])])
          ELSE <<>>
   IN Flatten([i \in DOMAIN researchers |-> linksOf(researchers[i])])

\* labs is getLabs(), so findBestLabMatch(name, labs) is MatchedLab[name].
ResearcherLabLinks(researchers, labs) ==
   LET linksOf(researcher) ==
          IF Falsy(researcher, "advisor") /\ Has(researcher, "labs")
             /\ Len(researcher.labs) > 0
          THEN LET linkFor(researcherLabName) ==
                      LabLink(researcher.researcher_id, MatchedLab[researcherLabName])
               IN Flatten([i \in DOMAIN researcher.labs |-> linkFor(researcher.labs[i])])
          ELSE <<>>
   IN Flatten([i \in DOMAIN researchers |-> linksOf(researchers[i])])

\* The outcome of DynamoDBService.fetchGraphData: the snapshot, or the error
\* it rethrows.
Rejected == [status |-> "threw", data |-> EmptySnapshot]

Resolved(data) == [status |-> "ok", data |-> data]

fetchGraphData(db, failing) ==
   LET scanned == fetchResearchers(db, failing)
       paperEdges == fetchPaperEdges(db, failing)
       advisorEdges == fetchAdvisorEdges(db, failing)
   IN IF scanned.threw \/ paperEdges.threw \/ advisorEdges.threw THEN Rejected
      ELSE LET researchers == scanned.items
               researcherId(r) == r.researcher_id
               researcherIds == [i \in DOMAIN researchers |-> researcherId(researchers[i])]
               metrics == fetchMetrics(db, failing, researcherIds)
               descriptions == fetchDescriptions(db, failing, researcherIds)
               labs == getLabs
               node(r) == ResearcherNode(db, failing, metrics, descriptions, r)
               researcherNodes == [i \in DOMAIN researchers |-> node(researchers[i])]
               labNodes == [i \in DOMAIN labs |-> LabNode(labs[i])]
               nodes == researcherNodes \o labNodes
               links == PaperLinks(researchers, paperEdges.items)
                           \o AdvisorLinks(researchers, advisorEdges.items)
                           \o ResearcherLabLinks(researchers, labs)
           IN Resolved([nodes |-> nodes, links |-> links])

----------------------------------------------------------------------------
(* Store contents the model explores.                                      *)

MaxResearchers == 2

MaxEdges == 1

ResearcherIds == {"r1", "r2", "aims_lab"}

\* The optional fields of a researcher record.
Profiles ==
   { <<>>,
     [labs |-> <<"AIMS">>],
     [advisor |-> "Prof", labs |-> <<"AIMS">>],
     [advisor |-> "", labs |-> <<"xyz", "AIMS Lab">>] }

ResearcherRecords ==
   {[researcher_id |-> i, name |-> i] @@ p : i \in ResearcherIds, p \in Profiles}

SeqsUpTo(S, n) == UNION {[1..k -> S] : k \in 0..n}

\* researcher_id is the key of the researchers table
DistinctIds(s) ==
   \A i, j \in DOMAIN s : s[i].researcher_id = s[j].researcher_id => i = j

ResearcherLists ==
   {s \in SeqsUpTo(ResearcherRecords, MaxResearchers) : DistinctIds(s)}

EdgeEnds ==
   { <<"r1", "r2">>, <<"r1", "ghost">>, <<"r2", "aims_lab">> }

PaperEdgeLists ==
   SeqsUpTo({[researcher_one_id |-> e[1], researcher_two_id |-> e[2]] : e \in EdgeEnds},
            MaxEdges)

AdvisorEdgeLists ==
   SeqsUpTo({[advisee_id |-> e[1], advisor_id |-> e[2]] : e \in EdgeEnds}, MaxEdges)

LibraryTable ==
   << [researcher_id |-> "r1", document_id |-> "d1"],
      [researcher_id |-> "r1", document_id |-> "d2"],
      [researcher_id |-> "r2", document_id |-> "d2"],
      [researcher_id |-> "r2", document_id |-> "d4"] >>

PapersTable ==
   << [document_id |-> "d1", title |-> "t1", year |-> 2021, tags |-> <<"nlp", "NLP">>],
      [document_id |-> "d2", title |-> "t2", year |-> 2022, tags |-> <<"vision", "nlp">>],
      [document_id |-> "d3", title |-> "t3", year |-> 2023] >>

MetricsTable ==
   << [researcher_id |-> "r1", influence |-> Num(50)],
      [researcher_id |-> "r2", influence |-> Num(101)] >>

DescriptionsTable ==
   << [researcher_id |-> "r1", about |-> "bio"],
      [researcher_id |-> "aims_lab"] >>

Store(researchers, paperEdges, advisorEdges) ==
   [researchers |-> researchers, paperEdges |-> paperEdges,
    advisorEdges |-> advisorEdges, library |-> LibraryTable,
    papers |-> PapersTable, metrics |-> MetricsTable,
    descriptions |-> DescriptionsTable]

StoreChoices ==
   {Store(r, p, a) : r \in ResearcherLists, p \in PaperEdgeLists, a \in AdvisorEdgeLists}

\* The tables that fail during one pass: none, any single one, both
\* annotation tables, or all of them.
FailureSets ==
   {{}} \cup {{c} : c \in FetchCalls} \cup {{"metrics", "descriptions"}, FetchCalls}

\* The store behind the cache, and the stores earlier cache files were built
\* from.
LiveStore ==
   Store(<< [researcher_id |-> "r1", name |-> "r1", labs |-> <<"AIMS">>],
            [researcher_id |-> "r2", name |-> "r2", advisor |-> "Prof"] >>,
         << [researcher_one_id |-> "r1", researcher_two_id |-> "r2"] >>,
         << [advisee_id |-> "r2", advisor_id |-> "r1"] >>)

PrimaryFileStore ==
   Store(<< [researcher_id |-> "r1", name |-> "r1", labs |-> <<"AIMS">>] >>, <<>>, <<>>)

SecondaryFileStore == Store(<<>>, <<>>, <<>>)

----------------------------------------------------------------------------
(* CacheStore: the backend's _graph_cache, its two snapshot files and the  *)
(* requests served from it.                                                *)

NumReaders == 2

MaxRebuilds == 1

Readers == 1..NumReaders

\* Python's None
None == [none |-> TRUE]

\* A file that does not exist, one that is not JSON, and one that is JSON
\* but no {nodes, links} document.
Missing == [missing |-> TRUE]

Corrupt == [corrupt |-> TRUE]

WrongShape == [nodes |-> <<>>]

PrimaryFiles == {Missing, Corrupt, fetchGraphData(PrimaryFileStore, {}).data}

SecondaryFiles == {Missing, WrongShape, fetchGraphData(SecondaryFileStore, {}).data}

WellFormed(doc) == Has(doc, "nodes") /\ Has(doc, "links")

NoResponse == [status |-> "none", data |-> EmptySnapshot]

NoCall == [fn |-> "none"]

\* PaperChatModal before a paper is chosen: useState([]), useState(''),
\* useState(false), and no request sent.
ChatClosed ==
   [paper |-> "none", isOpen |-> FALSE, messages |-> <<>>, inputValue |-> "",
    isLoading |-> FALSE, requests |-> <<>>, lastSend |-> "none"]

Modals == {"researcher", "lab", "recommendations"}

\* A modal that is not shown: useState(false) for isClosing, no timeout set.
ModalClosed ==
   [isOpen |-> FALSE, isClosing |-> FALSE, timeouts |-> 0, requests |-> 0,
    onCloseCalls |-> 0]

NoTimeout == [set |-> FALSE, query |-> ""]

\* SearchBar as mounted.
SearchIdle ==
   [searchQuery |-> "", searchResults |-> <<>>, showDropdown |-> FALSE,
    selectedIndex |-> -1, searchTimeout |-> NoTimeout]

VARIABLES
   store,          \* content of the store's tables
   direct,         \* outcome of a DynamoDBService.fetchGraphData request
   graphCache,     \* _graph_cache
   primarySrc,     \* backend/cache/graph_cache.json
   secondarySrc,   \* public/graph_cache.json
   readOnly,       \* the deployment's filesystem is read-only
   rpc,            \* position of each GET /api/graph/data request
   rres,           \* what the API client returned to each caller
   loadCount,      \* executions of load_graph_cache
   installed,      \* every snapshot _graph_cache was set to
   bpc,            \* position of the rebuild request
   built,          \* the snapshot the rebuild assembled
   failedCalls,    \* the tables that failed during the rebuild pass
   response,       \* the rebuild request's response
   writeAttempts,  \* attempts to write the primary file
   passes,         \* rebuild requests received
   call,           \* a RecordFetcher or LabResolver call and its arguments
   result,         \* what that call has sent, received and returned so far
   chat,           \* PaperChatModal: its props, its state and its requests
   modal,          \* the researcher, lab and recommendations modals
   search          \* SearchBar: its state and its debounce timer

uiVars == << chat, modal, search >>

vars ==
   << chat, modal, search, call, result, store, direct, graphCache, primarySrc, secondarySrc, readOnly,
      rpc, rres, loadCount, installed, bpc, built, failedCalls, response,
      writeAttempts, passes >>

cacheVars ==
   << graphCache, primarySrc, secondarySrc, readOnly, rpc, rres, loadCount,
      installed, bpc, built, failedCalls, response, writeAttempts, passes >>

InitCache ==
   /\ graphCache = None
   /\ rpc = [r \in Readers |-> "idle"]
   /\ rres = [r \in Readers |-> NoResponse]
   /\ loadCount = 0
   /\ installed = {}
   /\ bpc = "idle"
   /\ built = EmptySnapshot
   /\ failedCalls = {}
   /\ response = [pending |-> TRUE]
   /\ writeAttempts = 0
   /\ passes = 0
   /\ direct = NoResponse
   /\ call = NoCall
   /\ result = NoCall
   /\ chat = ChatClosed
   /\ modal = [m \in Modals |-> ModalClosed]
   /\ search = SearchIdle

Init ==
   /\ InitCache
   /\ store = LiveStore
   /\ primarySrc \in PrimaryFiles
   /\ secondarySrc \in SecondaryFiles
   /\ readOnly \in BOOLEAN

\* load_graph_cache without the final fallback: _graph_cache stays None.
load_graph_cacheNoFallback(primary, secondary) ==
   IF WellFormed(primary) THEN primary
   ELSE IF WellFormed(secondary) THEN secondary
   ELSE None

\* load_graph_cache trying the bundled file before the on-disk one.
load_graph_cacheSecondaryFirst(primary, secondary) ==
   IF WellFormed(secondary) THEN secondary
   ELSE IF WellFormed(primary) THEN primary
   ELSE EmptySnapshot

\* load_graph_cache: the first source that exists and parses as a
\* {nodes, links} document, else the empty snapshot.
load_graph_cache(primary, secondary) ==
   IF WellFormed(primary) THEN primary
   ELSE IF WellFormed(secondary) THEN secondary
   ELSE EmptySnapshot

\* fetchGraphData of the API client: res.json() of an ok response, else throws.
fetchGraphDataClient(res) ==
   IF res.ok THEN Resolved(res.body) ELSE Rejected

\* get_graph_data: if _graph_cache is None
GetCheck(r) ==
   /\ rpc[r] = "idle"
   /\ rpc' = [rpc EXCEPT ![r] = IF graphCache = None THEN "load" ELSE "return"]
   /\ UNCHANGED << call, result, store, uiVars, direct, graphCache, primarySrc, secondarySrc,
                   readOnly, rres, loadCount, installed, bpc, built, failedCalls,
                   response, writeAttempts, passes >>

\* get_graph_data: load_graph_cache()
GetLoad(r) ==
   /\ rpc[r] = "load"
   /\ graphCache' = load_graph_cache(primarySrc, secondarySrc)
   /\ loadCount' = loadCount + 1
   /\ installed' = installed \cup {graphCache'}
   /\ rpc' = [rpc EXCEPT ![r] = "return"]
   /\ UNCHANGED << call, result, store, uiVars, direct, primarySrc, secondarySrc, readOnly,
                   rres, bpc, built, failedCalls, response, writeAttempts, passes >>

\* get_graph_data: return jsonify(_graph_cache), received by the API client
GetReturn(r) ==
   /\ rpc[r] = "return"
   /\ rres' = [rres EXCEPT ![r] = fetchGraphDataClient([ok |-> TRUE, body |-> graphCache])]
   /\ rpc' = [rpc EXCEPT ![r] = "done"]
   /\ UNCHANGED << call, result, store, uiVars, direct, graphCache, primarySrc, secondarySrc,
                   readOnly, loadCount, installed, bpc, built, failedCalls, response,
                   writeAttempts, passes >>

\* The rebuild request handled without looking at the deployment environment.
RebuildBeginUnguarded ==
   /\ bpc \in {"idle", "done", "failed", "refused"}
   /\ passes < MaxRebuilds
   /\ passes' = passes + 1
   /\ failedCalls' = {}
   /\ bpc' = "fetching"
   /\ response' = [pending |-> TRUE]
   /\ UNCHANGED << call, result, store, uiVars, direct, graphCache, primarySrc, secondarySrc,
                   readOnly, rpc, rres, loadCount, installed, built, writeAttempts >>

\* POST /api/graph/rebuild-cache is received.
RebuildBegin ==
   /\ bpc \in {"idle", "done", "failed", "refused"}
   /\ passes < MaxRebuilds
   /\ passes' = passes + 1
   /\ failedCalls' = {}
   /\ IF readOnly
      THEN /\ bpc' = "refused"
           /\ response' = [ok |-> FALSE, reason |-> "cache writing disabled on Vercel"]
      ELSE /\ bpc' = "fetching"
           /\ response' = [pending |-> TRUE]
   /\ UNCHANGED << call, result, store, uiVars, direct, graphCache, primarySrc, secondarySrc,
                   readOnly, rpc, rres, loadCount, installed, built, writeAttempts >>

\* A rebuild that assembles the graph directly into _graph_cache.
RebuildFetchInPlace ==
   /\ bpc = "fetching"
   /\ \E failing \in FailureSets :
         LET outcome == fetchGraphData(store, failing)
         IN /\ failedCalls' = failing
            /\ IF outcome.status = "threw"
               THEN /\ bpc' = "failed"
                    /\ built' = built
                    /\ graphCache' = graphCache
                    /\ response' = [success |-> FALSE, error |-> "rebuild failed"]
               ELSE /\ bpc' = "built"
                    /\ built' = outcome.data
                    /\ graphCache' = outcome.data
                    /\ response' = response
   /\ UNCHANGED << call, result, store, uiVars, direct, primarySrc, secondarySrc,
                   readOnly, rpc, rres, loadCount, installed, writeAttempts, passes >>

\* The rebuild assembles the graph from the store.
RebuildFetch ==
   /\ bpc = "fetching"
   /\ \E failing \in FailureSets :
         LET outcome == fetchGraphData(store, failing)
         IN /\ failedCalls' = failing
            /\ IF outcome.status = "threw"
               THEN /\ bpc' = "failed"
                    /\ built' = built
                    /\ response' = [success |-> FALSE, error |-> "rebuild failed"]
               ELSE /\ bpc' = "built"
                    /\ built' = outcome.data
                    /\ response' = response
   /\ UNCHANGED << call, result, store, uiVars, direct, graphCache, primarySrc, secondarySrc,
                   readOnly, rpc, rres, loadCount, installed, writeAttempts, passes >>

\* An update of _graph_cache that assigns the nodes and leaves the old links.
RebuildSwapTorn ==
   /\ bpc = "built"
   /\ graphCache' = [nodes |-> built.nodes,
                     links |-> IF graphCache = None THEN <<>> ELSE graphCache.links]
   /\ installed' = installed \cup {built}
   /\ bpc' = "swapped"
   /\ UNCHANGED << call, result, store, uiVars, direct, primarySrc, secondarySrc, readOnly,
                   rpc, rres, loadCount, built, failedCalls, response, writeAttempts,
                   passes >>

\* The rebuild updates the in-memory _graph_cache.
RebuildSwap ==
   /\ bpc = "built"
   /\ graphCache' = built
   /\ installed' = installed \cup {built}
   /\ bpc' = "swapped"
   /\ UNCHANGED << call, result, store, uiVars, direct, primarySrc, secondarySrc, readOnly,
                   rpc, rres, loadCount, built, failedCalls, response, writeAttempts,
                   passes >>

\* The rebuild saves the snapshot to backend/cache/graph_cache.json.
RebuildSave ==
   /\ bpc = "swapped"
   /\ writeAttempts' = writeAttempts + 1
   /\ IF readOnly
      THEN /\ primarySrc' = primarySrc
           /\ response' = [success |-> FALSE, error |-> "PermissionError"]
      ELSE /\ primarySrc' = built
           /\ response' = [success |-> TRUE, nodes |-> Len(built.nodes),
                           links |-> Len(built.links)]
   /\ bpc' = "done"
   /\ UNCHANGED << call, result, store, uiVars, direct, graphCache, secondarySrc, readOnly,
                   rpc, rres, loadCount, installed, built, failedCalls, passes >>

\* The frontend requests the graph with DynamoDBService.fetchGraphData.
DirectRequest ==
   /\ direct.status = "none"
   /\ \E failing \in FailureSets :
         direct' = fetchGraphData(store, failing)
   /\ UNCHANGED << call, result, store, uiVars, cacheVars >>

Next ==
   \/ \E r \in Readers : GetCheck(r)
   \/ \E r \in Readers : GetLoad(r)
   \/ \E r \in Readers : GetReturn(r)
   \/ RebuildBegin
   \/ RebuildFetch
   \/ RebuildSwap
   \/ RebuildSave

Spec == Init /\ [][Next]_vars

\* The frontend's assembly, over every store content within the bounds.
InitAsm ==
   /\ InitCache
   /\ store \in StoreChoices
   /\ primarySrc = Missing
   /\ secondarySrc = Missing
   /\ readOnly = TRUE

NextAsm == DirectRequest

SpecAsm == InitAsm /\ [][NextAsm]_vars

----------------------------------------------------------------------------
(* The frontend's assembly over the annotation records of one researcher:  *)
(* every kind of influence value, biography and tag list.                  *)

InfluenceValues ==
   {Num(0), Num(50), Num(100), Num(101), Num(-1),
    Str("50"), Str("101"), Str("abc"), Str(""), Null}

MetricsTables ==
   {<<>>, << [researcher_id |-> "r1"] >>}
      \cup {<< [researcher_id |-> "r1", influence |-> v],
               [researcher_id |-> "r2", influence |-> Num(101)] >> : v \in InfluenceValues}

DescriptionsTables ==
   { <<>>,
     << [researcher_id |-> "r1"] >>,
     << [researcher_id |-> "r1", about |-> ""] >>,
     << [researcher_id |-> "r1", about |-> "bio"], [researcher_id |-> "r2"] >> }

PapersTables ==
   {<< [document_id |-> "d1", title |-> "t1", year |-> 2021],
       [document_id |-> "d2", title |-> "t2", year |-> 2022, tags |-> <<"vision", "nlp">>] >>}
      \cup {<< [document_id |-> "d1", title |-> "t1", year |-> 2021, tags |-> t],
               [document_id |-> "d2", title |-> "t2", year |-> 2022,
                tags |-> <<"vision", "nlp">>] >> :
               t \in {<<>>, <<"nlp", "NLP", "vision">>, <<"vision", "NLP", "vision", "NLP">>}}

AnnotatedStores ==
   {[LiveStore EXCEPT !.metrics = m, !.descriptions = d, !.papers = p] :
      m \in MetricsTables, d \in DescriptionsTables, p \in PapersTables}

InitNode ==
   /\ InitCache
   /\ store \in AnnotatedStores
   /\ primarySrc = Missing
   /\ secondarySrc = Missing
   /\ readOnly = TRUE

SpecNode == InitNode /\ [][NextAsm]_vars

----------------------------------------------------------------------------
(* One call of RecordFetcher, request by request.                           *)

MaxIds == 250

BatchFetchers == {"fetchPapers", "fetchMetrics", "fetchDescriptions", "fetchResearchersByIds"}

\* The lengths of id list around the 100-key limit.
IdCounts ==
   {0, 1, BatchKeyLimit - 1, BatchKeyLimit, BatchKeyLimit + 1, 2 * BatchKeyLimit, MaxIds}

\* Lists of n distinct ids in three orders.
IdList(n, order) ==
   CASE order = "ascending" -> [i \in 1..n |-> i]
     [] order = "descending" -> [i \in 1..n |-> n + 1 - i]
     [] order = "interleaved" -> [i \in 1..n |-> ((i * 7) % n) + 1]

IdLists == {IdList(n, order) : n \in IdCounts, order \in {"ascending", "descending", "interleaved"}}

\* The table a lookup reads: two ids of three have an item.
BatchItem(i) == [researcher_id |-> i, document_id |-> i, influence |-> Num((i * 7) % 130)]

BatchTable ==
   LET present(item) == item.researcher_id % 3 # 0
   IN SelectSeq([i \in 1..MaxIds |-> BatchItem(i)], present)

BatchKey(fn) == IF fn = "fetchPapers" THEN "document_id" ELSE "researcher_id"

\* The Keys of the BatchGetCommands a lookup sends: fetchPapers sends one
\* command with every id, the others one command per batch.
Requests(fn, ids) ==
   IF ids = <<>> THEN <<>>
   ELSE IF fn = "fetchPapers" THEN << ids >>
   ELSE Batches(ids, 1)

\* The store rejects a BatchGetCommand of more than 100 keys.
StoreAnswer(fn, keys) ==
   IF Len(keys) > BatchKeyLimit THEN Threw
   ELSE Returned(BatchGet(BatchTable, BatchKey(fn), keys))

Pending == [pending |-> TRUE]

\* responses.flatMap(...) and the mapping of the merged items, or [] from
\* the catch block when a command was rejected.
Merged(fn, responses) ==
   IF \E i \in DOMAIN responses : responses[i].threw THEN <<>>
   ELSE LET all == Flatten([i \in DOMAIN responses |-> responses[i].items])
        IN CASE fn = "fetchMetrics" -> [i \in DOMAIN all |-> ParsedMetric(all[i])]
             [] fn = "fetchDescriptions" -> [i \in DOMAIN all |-> FilledDescription(all[i])]
             [] OTHER -> all

InitBatch ==
   /\ InitCache
   /\ store = LiveStore
   /\ primarySrc = Missing
   /\ secondarySrc = Missing
   /\ readOnly = TRUE

\* A lookup is called: an empty id list returns at once, otherwise every
\* command is sent.
SendBatches ==
   /\ call = NoCall
   /\ \E fn \in BatchFetchers, ids \in IdLists :
         /\ call' = [fn |-> fn, ids |-> ids]
         /\ result' = [sent |-> Requests(fn, ids),
                       responses |-> [i \in DOMAIN Requests(fn, ids) |-> Pending],
                       completed |-> <<>>,
                       returned |-> IF ids = <<>> THEN [items |-> <<>>] ELSE Pending]
   /\ UNCHANGED << store, uiVars, direct, cacheVars >>

\* The store answers one of the commands in flight.
BatchCompletes ==
   /\ call # NoCall
   /\ call.fn \in BatchFetchers
   /\ \E i \in DOMAIN result.responses :
         /\ result.responses[i] = Pending
         /\ result' = [result EXCEPT !.responses[i] = StoreAnswer(call.fn, result.sent[i]),
                                      !.completed = Append(@, i)]
   /\ UNCHANGED << call, store, uiVars, direct, cacheVars >>

\* Promise.all has every response: the lookup returns.
MergeBatches ==
   /\ call # NoCall
   /\ call.fn \in BatchFetchers
   /\ result.returned = Pending
   /\ \A i \in DOMAIN result.responses : result.responses[i] # Pending
   /\ result' = [result EXCEPT !.returned = [items |-> Merged(call.fn, result.responses)]]
   /\ UNCHANGED << call, store, uiVars, direct, cacheVars >>

MaxTransientFailures == 2

ScanFetchers == {"fetchResearchers", "fetchPaperEdges", "fetchAdvisorEdges"}

Scan(fn, failing) ==
   CASE fn = "fetchResearchers" -> fetchResearchers(store, failing)
     [] fn = "fetchPaperEdges" -> fetchPaperEdges(store, failing)
     [] fn = "fetchAdvisorEdges" -> fetchAdvisorEdges(store, failing)

\* A scan is called while the store fails its next `failures` requests.
ScanCalled ==
   /\ call = NoCall
   /\ \E fn \in ScanFetchers, failures \in 0..MaxTransientFailures :
         call' = [fn |-> fn, failures |-> failures]
   /\ result' = [attempts |-> 0, returned |-> Pending]
   /\ UNCHANGED << store, uiVars, direct, cacheVars >>

\* docClient.send(command): the items are returned, or the error is logged
\* and thrown again.
ScanSend ==
   /\ call # NoCall
   /\ call.fn \in ScanFetchers
   /\ result.returned = Pending
   /\ result' = [attempts |-> result.attempts + 1,
                 returned |-> Scan(call.fn, IF result.attempts < call.failures
                                            THEN FetchCalls ELSE {})]
   /\ UNCHANGED << call, store, uiVars, direct, cacheVars >>

NextBatch == SendBatches \/ BatchCompletes \/ MergeBatches \/ ScanCalled \/ ScanSend

SpecBatch == InitBatch /\ [][NextBatch]_vars

----------------------------------------------------------------------------
(* LabResolver, one call at a time, over registries in every order.        *)

MaxLabs == 3

\* Labs of the registry, and one lab named "AIMS" alone.
LabPool ==
   { [lab_id |-> "aims_lab", name |-> "AIMS Lab"],
     [lab_id |-> "aims", name |-> "AIMS"],
     [lab_id |-> "sampl", name |-> "SAMPL"],
     [lab_id |-> "database_group", name |-> "Database Group"],
     [lab_id |-> "interactive_data_lab", name |-> "Interactive Data Lab"] }

DistinctLabs(labs) == \A i, j \in DOMAIN labs : labs[i] = labs[j] => i = j

Registries ==
   {getLabs} \cup {labs \in SeqsUpTo(LabPool, MaxLabs) : DistinctLabs(labs)}

\* The scores the loop of findBestLabMatch computes, lab by lab.
Scores(researcherLabName, labs) ==
   [j \in DOMAIN labs |-> fuzzyMatchLab(researcherLabName, labs[j].lab_id, labs[j].name)]

\* The scores the comparison of findBestLabMatch may meet.
ScoreValues == {<<0, 1>>, <<1, 4>>, ScoreThreshold, <<1, 2>>, ScoreSubstring, ScoreExact}

InitLab ==
   /\ InitCache
   /\ store = LiveStore
   /\ primarySrc = Missing
   /\ secondarySrc = Missing
   /\ readOnly = TRUE

\* findBestLabMatch(researcherLabName, labs) is called and returns.
Resolve ==
   /\ call = NoCall
   /\ \E researcherLabName \in LabNames, labs \in Registries :
         /\ call' = [fn |-> "findBestLabMatch", researcherLabName |-> researcherLabName,
                     labs |-> labs]
         /\ result' = [lab |-> findBestLabMatch(researcherLabName, labs),
                       scores |-> Scores(researcherLabName, labs)]
   /\ UNCHANGED << store, uiVars, direct, cacheVars >>

\* bestMatch and bestScore as a turn of the loop finds them: null with the
\* threshold, or a lab with the score above the threshold that installed it.
BestSoFar ==
   {[bestMatch |-> NoLab, bestScore |-> ScoreThreshold]}
      \cup {[bestMatch |-> lab, bestScore |-> score] :
               lab \in LabPool, score \in {<<1, 2>>, ScoreSubstring, ScoreExact}}

\* The last turn of the loop of findBestLabMatch, for any score the call of
\* fuzzyMatchLab may hand it and any bestMatch/bestScore.
Compare ==
   /\ call = NoCall
   /\ \E score \in ScoreValues, best \in BestSoFar, lab \in LabPool :
         /\ call' = [fn |-> "BestLabStep", score |-> score, bestScore |-> best.bestScore,
                     bestMatch |-> best.bestMatch, lab |-> lab]
         /\ result' = [lab |-> BestLabStep("xyz", << lab >>, 1, best.bestMatch,
                                           best.bestScore, score)]
   /\ UNCHANGED << store, uiVars, direct, cacheVars >>

NextLab == Resolve \/ Compare

SpecLab == InitLab /\ [][NextLab]_vars

----------------------------------------------------------------------------
(* One pass of fetchGraphData, await by await: the requests of a           *)
(* Promise.all complete in any order.                                      *)

PassStores == {LiveStore, PrimaryFileStore, SecondaryFileStore}

PassFailures == {{}, {"descriptions"}, {"papers"}, {"paper-edges"}}

\* The async function of researchers.map() has fetched the library entries
\* and awaits fetchPapers.
AwaitingPapers == [awaiting |-> "fetchPapers"]

Settled(slot) == slot # Pending /\ slot # AwaitingPapers

\* The array a Promise.all resolved with, were it in the order its promises
\* completed in.
PromiseAllInCompletionOrder(slots, completed) ==
   [i \in DOMAIN slots |-> slots[completed[i]]]

\* The array Promise.all resolves with: the values in the order of the
\* promises it was given.
PromiseAll(slots, completed) == slots

\* The three scans of the first Promise.all.
ScanOutcome(k, db, failing) ==
   CASE k = 1 -> fetchResearchers(db, failing)
     [] k = 2 -> fetchPaperEdges(db, failing)
     [] k = 3 -> fetchAdvisorEdges(db, failing)

\* The two lookups of the second Promise.all.
LookupOutcome(k, db, failing, researchers) ==
   LET researcherId(r) == r.researcher_id
       researcherIds == [i \in DOMAIN researchers |-> researcherId(researchers[i])]
   IN IF k = 1 THEN [items |-> fetchMetrics(db, failing, researcherIds)]
      ELSE [items |-> fetchDescriptions(db, failing, researcherIds)]

\* What the request that completes leaves in its slot.
Outcome(stage, k, slot, db, failing, scans, lookups) ==
   CASE stage = "scans" -> ScanOutcome(k, db, failing)
     [] stage = "lookups" -> LookupOutcome(k, db, failing, scans[1].items)
     [] stage = "nodes" ->
           IF slot = Pending THEN AwaitingPapers
           ELSE ResearcherNode(db, failing, lookups[1].items, lookups[2].items,
                               scans[1].items[k])

\* The synchronous end of fetchGraphData.
Assembled(researchers, paperEdges, advisorEdges, researcherNodes) ==
   Resolved([nodes |-> researcherNodes \o [i \in DOMAIN getLabs |-> LabNode(getLabs[i])],
             links |-> PaperLinks(researchers, paperEdges)
                          \o AdvisorLinks(researchers, advisorEdges)
                          \o ResearcherLabLinks(researchers, getLabs)])

InitPass ==
   /\ InitCache
   /\ store \in PassStores
   /\ primarySrc = Missing
   /\ secondarySrc = Missing
   /\ readOnly = TRUE

\* fetchGraphData() is called and starts its three scans.
PassBegin ==
   /\ call = NoCall
   /\ \E failing \in PassFailures :
         call' = [fn |-> "fetchGraphData", failing |-> failing]
   /\ result' = [stage |-> "scans", slots |-> [k \in 1..3 |-> Pending],
                 completed |-> <<>>, scans |-> <<>>, lookups |-> <<>>,
                 returned |-> Pending]
   /\ UNCHANGED << store, uiVars, direct, cacheVars >>

\* One of the requests awaited by the current Promise.all completes.
PassSettles ==
   /\ call.fn = "fetchGraphData"
   /\ result.returned = Pending
   /\ \E k \in DOMAIN result.slots :
         /\ ~Settled(result.slots[k])
         /\ result' =
               [result EXCEPT
                  !.slots[k] = Outcome(result.stage, k, result.slots[k], store,
                                       call.failing, result.scans, result.lookups),
                  !.completed = IF result.stage = "nodes" /\ result.slots[k] = Pending
                                THEN @ ELSE Append(@, k)]
   /\ UNCHANGED << call, store, uiVars, direct, cacheVars >>

\* A scan has thrown: Promise.all rejects and fetchGraphData rethrows.
PassRejects ==
   /\ call.fn = "fetchGraphData"
   /\ result.returned = Pending
   /\ result.stage = "scans"
   /\ \E k \in DOMAIN result.slots : result.slots[k] = Threw
   /\ result' = [result EXCEPT !.returned = Rejected]
   /\ UNCHANGED << call, store, uiVars, direct, cacheVars >>

\* Every request of the current Promise.all has completed: the function
\* goes on to its next await, or returns the snapshot.
PassContinues ==
   /\ call.fn = "fetchGraphData"
   /\ result.returned = Pending
   /\ \A k \in DOMAIN result.slots : Settled(result.slots[k]) /\ result.slots[k] # Threw
   /\ result' =
         CASE result.stage = "scans" ->
                 [result EXCEPT !.stage = "lookups",
                                !.scans = PromiseAll(result.slots, result.completed),
                                !.slots = [k \in 1..2 |-> Pending],
                                !.completed = <<>>]
           [] result.stage = "lookups" ->
                 [result EXCEPT !.stage = "nodes",
                                !.lookups = PromiseAll(result.slots, result.completed),
                                !.slots = [k \in DOMAIN result.scans[1].items |-> Pending],
                                !.completed = <<>>]
           [] result.stage = "nodes" ->
                 [result EXCEPT !.returned =
                    Assembled(result.scans[1].items, result.scans[2].items,
                              result.scans[3].items,
                              PromiseAll(result.slots, result.completed))]
   /\ UNCHANGED << call, store, uiVars, direct, cacheVars >>

NextPass == PassBegin \/ PassSettles \/ PassRejects \/ PassContinues

SpecPass == InitPass /\ [][NextPass]_vars

----------------------------------------------------------------------------
(* The modals' close animation: handleRequestClose and its 220 ms timeout. *)

MaxCloseRequests == 3

InitUi ==
   /\ InitCache
   /\ store = LiveStore
   /\ primarySrc = Missing
   /\ secondarySrc = Missing
   /\ readOnly = TRUE

\* A close request that finds isClosing false goes ahead all the same.
CloseNeverIgnored(isClosing) == FALSE

\* if (isClosing) return;
CloseIgnored(isClosing) == isClosing

\* The parent shows the modal.
ModalOpen(m) ==
   /\ ~modal[m].isOpen
   /\ modal' = [modal EXCEPT ![m].isOpen = TRUE, ![m].requests = 0,
                             ![m].onCloseCalls = 0]
   /\ UNCHANGED << chat, search, call, result, store, direct, cacheVars >>

\* handleRequestClose: the backdrop or the close button is clicked.
ModalRequestClose(m) ==
   /\ modal[m].isOpen
   /\ modal[m].requests < MaxCloseRequests
   /\ modal' =
         IF CloseIgnored(modal[m].isClosing)
         THEN [modal EXCEPT ![m].requests = @ + 1]
         ELSE [modal EXCEPT ![m].requests = @ + 1, ![m].isClosing = TRUE,
                            ![m].timeouts = @ + 1]
   /\ UNCHANGED << chat, search, call, result, store, direct, cacheVars >>

\* The timeout fires: setIsClosing(false); onClose(), and the parent hides
\* the modal.
ModalTimeout(m) ==
   /\ modal[m].timeouts > 0
   /\ modal' = [modal EXCEPT ![m].timeouts = @ - 1, ![m].isClosing = FALSE,
                             ![m].onCloseCalls = @ + 1, ![m].isOpen = FALSE]
   /\ UNCHANGED << chat, search, call, result, store, direct, cacheVars >>

NextModal ==
   \/ \E m \in Modals : ModalOpen(m)
   \/ \E m \in Modals : ModalRequestClose(m)
   \/ \E m \in Modals : ModalTimeout(m)

SpecModal == InitUi /\ [][NextModal]_vars

----------------------------------------------------------------------------
(* PaperChatModal: one component instance, kept mounted by                 *)
(* ResearchNetworkGraph while its paper and isOpen props change.           *)

MaxMessages == 3

ChatPapers == {"d1", "d2"}

ChatInputs == {"", " ", "lab", " lab "}

\* The modal renders its input and buttons: not (!paper || !isOpen).
ChatShown == chat.isOpen /\ chat.paper # "none"

\* handleSendMessage sending whatever the input holds.
SendIgnoredUnlessBusy(inputValue, paper, isLoading) == paper = "none" \/ isLoading

\* if (!inputValue.trim() || !paper || isLoading) return;
SendIgnored(inputValue, paper, isLoading) ==
   trim(Chars(inputValue)) = <<>> \/ paper = "none" \/ isLoading

\* handlePaperChat(paper): setSelectedPaper(paper); setShowPaperChat(true).
\* The effect on paper?.document_id empties the messages when the id changed.
ChatOpen ==
   /\ \E paper \in ChatPapers :
         /\ ~(chat.isOpen /\ chat.paper = paper)
         /\ chat' = [chat EXCEPT !.paper = paper, !.isOpen = TRUE,
                                 !.messages = IF paper # chat.paper THEN <<>> ELSE @]
   /\ UNCHANGED << modal, search, call, result, store, direct, cacheVars >>

\* handleClosePaperChat: setShowPaperChat(false); setSelectedPaper(null).
ChatClose ==
   /\ chat.isOpen
   /\ chat' = [chat EXCEPT !.isOpen = FALSE, !.paper = "none"]
   /\ UNCHANGED << modal, search, call, result, store, direct, cacheVars >>

\* onChange of the input, which is disabled while isLoading.
ChatType ==
   /\ ChatShown
   /\ ~chat.isLoading
   /\ \E value \in ChatInputs :
         /\ value # chat.inputValue
         /\ chat' = [chat EXCEPT !.inputValue = value]
   /\ UNCHANGED << modal, search, call, result, store, direct, cacheVars >>

\* handleSendMessage up to its await: Enter in the input or the Send button.
ChatSend ==
   /\ ChatShown
   /\ Len(chat.messages) < MaxMessages
   /\ chat' =
         IF SendIgnored(chat.inputValue, chat.paper, chat.isLoading)
         THEN [chat EXCEPT !.lastSend = "ignored"]
         ELSE [chat EXCEPT
                 !.messages = Append(@, [isUser |-> TRUE,
                                         content |-> StringOf(trim(Chars(chat.inputValue))),
                                         document_id |-> chat.paper]),
                 !.inputValue = "",
                 !.isLoading = TRUE,
                 !.requests = Append(@, [query |-> StringOf(trim(Chars(chat.inputValue))),
                                         document_id |-> chat.paper]),
                 !.lastSend = "sent"]
   /\ UNCHANGED << modal, search, call, result, store, direct, cacheVars >>

\* handleSendMessage after its await: the request is answered or fails, the
\* bot or the error message is appended, and finally setIsLoading(false).
ChatReply ==
   /\ chat.requests # <<>>
   /\ \E content \in {"answer", "error"} :
         chat' = [chat EXCEPT
                    !.messages = Append(@, [isUser |-> FALSE, content |-> content,
                                            document_id |-> Head(chat.requests).document_id]),
                    !.isLoading = FALSE,
                    !.requests = Tail(@)]
   /\ UNCHANGED << modal, search, call, result, store, direct, cacheVars >>

\* clearChat
ChatClear ==
   /\ ChatShown
   /\ chat.messages # <<>>
   /\ chat' = [chat EXCEPT !.messages = <<>>]
   /\ UNCHANGED << modal, search, call, result, store, direct, cacheVars >>

NextChat == ChatOpen \/ ChatClose \/ ChatType \/ ChatSend \/ ChatReply \/ ChatClear

SpecChat == InitUi /\ [][NextChat]_vars

----------------------------------------------------------------------------
(* SearchBar over the graph assembled from the live store.                 *)

\* graphData.nodes
GraphNodes == fetchGraphData(LiveStore, {}).data.nodes

SearchQueries == {"", " ", "lab", " lab ", "aims", "r", "xyz"}

\* results.slice(0, 10)
MaxResults == 10

SomeIncludes(strings, normalizedQuery) ==
   \E i \in DOMAIN strings : includes(toLowerCase(Chars(strings[i])), normalizedQuery)

\* A node with what searchNodes tests of it.
Probed(node, normalizedQuery) ==
   [node |-> node,
    lower |-> toLowerCase(Chars(node.name)),
    matchesName |-> includes(toLowerCase(Chars(node.name)), normalizedQuery),
    matchesLab |-> Has(node, "labs") /\ SomeIncludes(node.labs, normalizedQuery),
    matchesTag |-> Has(node, "tags") /\ SomeIncludes(node.tags, normalizedQuery)]

\* The comparator of results.sort() returns a negative number.  The names
\* of the graph are compared by localeCompare as their lower-cased
\* characters are.
SortsBefore(a, b) ==
   IF a.matchesName # b.matchesName THEN a.matchesName
   ELSE IF a.matchesLab # b.matchesLab THEN a.matchesLab
   ELSE IF a.matchesTag # b.matchesTag THEN a.matchesTag
   ELSE CharsLess(a.lower, b.lower)

RECURSIVE InsertResult(_, _)
InsertResult(x, s) ==
   IF s = <<>> THEN <<x>>
   ELSE IF SortsBefore(x, Head(s)) THEN <<x>> \o s
   ELSE <<Head(s)>> \o InsertResult(x, Tail(s))

RECURSIVE SortResults(_)
SortResults(s) ==
   IF s = <<>> THEN <<>>
   ELSE InsertResult(s[Len(s)], SortResults(SubSeq(s, 1, Len(s) - 1)))

SearchResult(probed) ==
   [id |-> probed.node.id, name |-> probed.node.name, type |-> probed.node.type]

\* searchNodes(query): what it passes to setSearchResults.
searchNodes(query) ==
   IF trim(Chars(query)) = <<>> THEN <<>>
   ELSE LET normalizedQuery == trim(toLowerCase(Chars(query)))
            matches(probed) == probed.matchesName \/ probed.matchesLab \/ probed.matchesTag
            results == SortResults(SelectSeq(
                          [i \in DOMAIN GraphNodes |-> Probed(GraphNodes[i], normalizedQuery)],
                          matches))
        IN [i \in 1..(IF Len(results) < MaxResults THEN Len(results) ELSE MaxResults) |->
              SearchResult(results[i])]

\* searchNodes(query) for every query of SearchQueries, computed once.
FoundNodes == [query \in SearchQueries |-> searchNodes(query)] @@ <<>>

Keys == {"Enter", "ArrowDown", "ArrowUp", "Escape"}

\* handleResultSelect(result): the node is in graphData.
ResultSelected ==
   [search EXCEPT !.searchQuery = "", !.showDropdown = FALSE, !.selectedIndex = -1]

\* handleInputChange
SearchType ==
   /\ \E query \in SearchQueries :
         /\ query # search.searchQuery
         /\ search' = [search EXCEPT
                         !.searchQuery = query,
                         !.selectedIndex = -1,
                         !.showDropdown = Len(Chars(query)) > 0,
                         !.searchTimeout = [set |-> TRUE, query |-> query]]
   /\ UNCHANGED << chat, modal, call, result, store, direct, cacheVars >>

\* The 200 ms timeout of handleInputChange fires: searchNodes(query).
SearchTimeout ==
   /\ search.searchTimeout.set
   /\ search' = [search EXCEPT !.searchResults = FoundNodes[search.searchTimeout.query],
                               !.searchTimeout = NoTimeout]
   /\ UNCHANGED << chat, modal, call, result, store, direct, cacheVars >>

\* A result of the dropdown is clicked.
SearchSelect ==
   /\ search.showDropdown
   /\ search.searchResults # <<>>
   /\ search' = ResultSelected
   /\ UNCHANGED << chat, modal, call, result, store, direct, cacheVars >>

\* handleKeyDown
SearchKey ==
   /\ \E key \in Keys :
         search' =
            CASE key = "Enter" ->
                    IF /\ search.showDropdown
                       /\ search.selectedIndex >= 0
                       /\ search.selectedIndex < Len(search.searchResults)
                    THEN ResultSelected
                    ELSE search
              [] key # "Enter" /\ ~search.showDropdown -> search
              [] key = "ArrowDown" /\ search.showDropdown ->
                    [search EXCEPT !.selectedIndex =
                       IF @ < Len(search.searchResults) - 1 THEN @ + 1 ELSE 0]
              [] key = "ArrowUp" /\ search.showDropdown ->
                    [search EXCEPT !.selectedIndex =
                       IF @ > 0 THEN @ - 1 ELSE Len(search.searchResults) - 1]
              [] key = "Escape" /\ search.showDropdown ->
                    [search EXCEPT !.showDropdown = FALSE, !.selectedIndex = -1]
   /\ UNCHANGED << chat, modal, call, result, store, direct, cacheVars >>

\* clearSearch: the button shown while searchQuery is not empty.
SearchClear ==
   /\ search.searchQuery # ""
   /\ search' = SearchIdle
   /\ UNCHANGED << chat, modal, call, result, store, direct, cacheVars >>

\* handleClickOutside
SearchClickOutside ==
   /\ search.showDropdown
   /\ search.searchResults # <<>>
   /\ search' = [search EXCEPT !.showDropdown = FALSE, !.selectedIndex = -1]
   /\ UNCHANGED << chat, modal, call, result, store, direct, cacheVars >>

NextSearch ==
   \/ SearchType
   \/ SearchTimeout
   \/ SearchSelect
   \/ SearchKey
   \/ SearchClear
   \/ SearchClickOutside

SpecSearch == InitUi /\ [][NextSearch]_vars

----------------------------------------------------------------------------
(* Properties.                                                             *)

NodeIds(snapshot) == {snapshot.nodes[i].id : i \in DOMAIN snapshot.nodes}

Scans == {"researchers", "paper-edges", "advisor_edges"}

Reading(r) == GetCheck(r) \/ GetLoad(r) \/ GetReturn(r)

\* C1: in every snapshot fetchGraphData assembles, the source and the target
\* of every link (paper, advisor, researcher_lab) are ids of nodes of that
\* same snapshot; edges of the store that name an unknown researcher are
\* dropped.
EdgeEndpointsExist ==
   direct.status = "ok" =>
      \A i \in DOMAIN direct.data.links :
         /\ direct.data.links[i].source \in NodeIds(direct.data)
         /\ direct.data.links[i].target \in NodeIds(direct.data)

\* A snapshot with links was assembled from a store holding a paper edge and
\* an advisor edge that each name a researcher the store does not have.
EdgeEndpointsExistWitness ==
   /\ direct.status = "ok"
   /\ Len(direct.data.links) > 0
   /\ \E i \in DOMAIN store.paperEdges :
         ~MapHas(store.researchers, store.paperEdges[i].researcher_two_id)
   /\ \E i \in DOMAIN store.advisorEdges :
         ~MapHas(store.researchers, store.advisorEdges[i].advisee_id)

\* C2: in every assembled snapshot no two nodes share an id, researcher
\* nodes and lab nodes taken together.
NodeIdsUnique ==
   direct.status = "ok" =>
      \A i, j \in DOMAIN direct.data.nodes :
         direct.data.nodes[i].id = direct.data.nodes[j].id => i = j

\* C3: the get() calls issued while _graph_cache is still None cause one
\* execution of the load, and the callers that have returned hold the same
\* snapshot.
SingleLoad ==
   /\ loadCount <= 1
   /\ \A r1, r2 \in Readers :
         (rpc[r1] = "done" /\ rpc[r2] = "done" /\ passes = 0) => rres[r1] = rres[r2]

\* C4: _graph_cache, and what every get() returned, is always one whole
\* snapshot as it was loaded or assembled, never nodes of one snapshot with
\* links of another.
SwapIsAtomic ==
   /\ graphCache = None \/ graphCache \in installed
   /\ \A r \in Readers :
         rpc[r] = "done" =>
            /\ rres[r].status = "ok"
            /\ rres[r].data \in installed

\* One caller holds the snapshot served before the rebuild and another the
\* rebuilt one.
SwapIsAtomicWitness ==
   /\ bpc \in {"swapped", "done"}
   /\ \E r1, r2 \in Readers :
         /\ rpc[r1] = "done" /\ rpc[r2] = "done"
         /\ rres[r2].data = built
         /\ rres[r1].data # built
         /\ rres[r1].data.links # built.links
         /\ rres[r1].data.nodes # built.nodes

ReadsDuringRebuild ==
   /\ [](\A r \in Readers : rpc[r] # "done" => ENABLED Reading(r))
   /\ [][graphCache' # graphCache =>
            \/ loadCount' = loadCount + 1
            \/ bpc = "built" /\ bpc' = "swapped" /\ graphCache' = built]_vars
   /\ [][\A r \in Readers :
            (rpc[r] = "return" /\ rpc'[r] = "done" /\ bpc \in {"fetching", "built"}) =>
               /\ rres'[r].data = graphCache
               /\ graphCache' = graphCache
               /\ graphCache \in installed]_vars

\* The rebuild has assembled a new snapshot and not yet swapped it in, and a
\* get() that returned meanwhile holds the snapshot served before.
ReadsDuringRebuildWitness ==
   /\ bpc = "built"
   /\ graphCache # None
   /\ built # graphCache
   /\ \E r \in Readers : rpc[r] = "done" /\ rres[r].data = graphCache
   /\ \E r \in Readers : rpc[r] = "return"

\* C7: every graph-data request is answered with a {nodes, links} document,
\* never with an exception.
RequestsAlwaysAnswered ==
   /\ direct.status # "none" => direct.status = "ok" /\ WellFormed(direct.data)
   /\ \A r \in Readers :
         rpc[r] = "done" => rres[r].status = "ok" /\ WellFormed(rres[r].data)

\* C8: while neither file is a usable {nodes, links} document and nothing was
\* swapped in, _graph_cache is None or the empty snapshot, and every get()
\* that returned holds exactly the empty snapshot.
EmptyFallback ==
   (~WellFormed(primarySrc) /\ ~WellFormed(secondarySrc)
    /\ bpc \notin {"swapped", "done"}) =>
      /\ graphCache \in {None, EmptySnapshot}
      /\ \A r \in Readers :
            rpc[r] = "done" => rres[r] = [status |-> "ok", data |-> EmptySnapshot]

\* A get() returned while one file was missing and the other was no
\* {nodes, links} document.
EmptyFallbackWitness ==
   /\ ~WellFormed(primarySrc) /\ ~WellFormed(secondarySrc)
   /\ primarySrc = Corrupt /\ secondarySrc = WrongShape
   /\ bpc \notin {"swapped", "done"}
   /\ \E r \in Readers : rpc[r] = "done"

KeyCapRespected ==
   call.fn \in BatchFetchers =>
      \A i \in DOMAIN result.sent : Len(result.sent[i]) <= BatchKeyLimit

\* What one uncapped lookup of all the ids of the call would return.
UncappedLookup ==
   Merged(call.fn, << Returned(BatchGet(BatchTable, BatchKey(call.fn), call.ids)) >>)

TransientFailureRetried ==
   (call.fn \in ScanFetchers /\ result.returned = Threw) => result.attempts > 1

LinksOfType(type) ==
   {i \in DOMAIN direct.data.links : direct.data.links[i].type = type}

Fetched(id) == \E i \in DOMAIN store.researchers : store.researchers[i].researcher_id = id

HasAdvisor(researcher) == Has(researcher, "advisor") /\ researcher.advisor # ""

\* C14: an assembled snapshot has no researcher_lab link whose source is a
\* researcher with an advisor, whatever lab names that researcher carries.
NoLabLinkWithAdvisor ==
   direct.status = "ok" =>
      \A i \in DOMAIN store.researchers :
         HasAdvisor(store.researchers[i]) =>
            \A k \in LinksOfType("researcher_lab") :
               direct.data.links[k].source # store.researchers[i].researcher_id

\* A snapshot was assembled from a researcher with an advisor whose lab name
\* resolves to a registry lab, next to an advisor-less one that got its link.
NoLabLinkWithAdvisorWitness ==
   /\ direct.status = "ok"
   /\ LinksOfType("researcher_lab") # {}
   /\ \E i \in DOMAIN store.researchers :
         /\ HasAdvisor(store.researchers[i])
         /\ store.researchers[i].labs = <<"AIMS">>
         /\ MatchedLab["AIMS"] # NoLab

\* The free-text name and the string are equal once both are normalized.
NormalizedEqual(researcherLabName, str) ==
   normalize(Chars(researcherLabName)) = normalize(Chars(str))

ExactLab(researcherLabName, lab) ==
   \/ NormalizedEqual(researcherLabName, lab.lab_id)
   \/ NormalizedEqual(researcherLabName, lab.name)

\* C15: when some lab of the registry equals the free-text name once both
\* are normalized, findBestLabMatch returns a lab that does, wherever the
\* labs stand in the registry.
ExactMatchWins ==
   call.fn = "findBestLabMatch" =>
      ((\E j \in DOMAIN call.labs : ExactLab(call.researcherLabName, call.labs[j]))
          => /\ result.lab # NoLab
             /\ ExactLab(call.researcherLabName, result.lab))

\* A lab the name matches only as a substring stands before the lab it
\* matches exactly, and the later one is returned.
ExactMatchWinsWitness ==
   /\ call.fn = "findBestLabMatch"
   /\ \E j, k \in DOMAIN call.labs :
         /\ j < k
         /\ ~ExactLab(call.researcherLabName, call.labs[j])
         /\ result.scores[j] = ScoreSubstring
         /\ ExactLab(call.researcherLabName, call.labs[k])
         /\ result.lab = call.labs[k]

AboveThreshold(score) == score[1] * 10 > 3 * score[2]

Higher(a, b) == a[1] * b[2] > b[1] * a[2]

\* C16: findBestLabMatch returns no lab when no score is strictly greater
\* than 0.3, and otherwise the earliest of the labs with the highest score;
\* a score of exactly 0.3 replaces nothing.
HighestAboveThreshold ==
   /\ call.fn = "findBestLabMatch" =>
         IF \A j \in DOMAIN call.labs : ~AboveThreshold(result.scores[j])
         THEN result.lab = NoLab
         ELSE \E j \in DOMAIN call.labs :
                 /\ result.lab = call.labs[j]
                 /\ AboveThreshold(result.scores[j])
                 /\ \A k \in DOMAIN call.labs : ~Higher(result.scores[k], result.scores[j])
                 /\ \A k \in 1..(j - 1) : Higher(result.scores[j], result.scores[k])
   /\ call.fn = "BestLabStep" =>
         result.lab = IF AboveThreshold(call.score) /\ Higher(call.score, call.bestScore)
                      THEN call.lab
                      ELSE call.bestMatch

\* Two labs share the highest score, above 0.3, and the earlier is returned.
HighestAboveThresholdWitness ==
   /\ call.fn = "findBestLabMatch"
   /\ \E j, k \in DOMAIN call.labs :
         /\ j < k
         /\ AboveThreshold(result.scores[j])
         /\ result.scores[j] = result.scores[k]
         /\ \A m \in DOMAIN call.labs : ~Higher(result.scores[m], result.scores[j])
         /\ result.lab = call.labs[j]

\* The researcher_lab links of the snapshot whose source is the given id.
LabLinksFrom(id) ==
   {k \in LinksOfType("researcher_lab") : direct.data.links[k].source = id}

\* The score of "AIMS" against every lab of the registry.
ScoresOfAims ==
   [j \in DOMAIN getLabs |-> fuzzyMatchLab("AIMS", getLabs[j].lab_id, getLabs[j].name)] @@ <<>>

ScenarioC(researcher) ==
   /\ ~HasAdvisor(researcher)
   /\ Has(researcher, "labs")
   /\ researcher.labs = <<"AIMS">>

\* C17 as stated: for an advisor-less researcher whose lab names are
\* ["AIMS"], the name is an exact normalized match of aims_lab and the
\* snapshot has exactly one researcher_lab link from that researcher, to
\* aims_lab.
ScenarioCExactMatch ==
   direct.status = "ok" =>
      \A i \in DOMAIN store.researchers :
         ScenarioC(store.researchers[i]) =>
            /\ getLabs[1].lab_id = "aims_lab"
            /\ ScoresOfAims[1] = ScoreExact
            /\ Cardinality(LabLinksFrom(store.researchers[i].researcher_id)) = 1
            /\ \A k \in LabLinksFrom(store.researchers[i].researcher_id) :
                  direct.data.links[k].target = "aims_lab"

\* C17 as amended: "AIMS" matches aims_lab as a substring (0.8), no registry
\* lab matches it exactly, and the snapshot has exactly one researcher_lab
\* link from that researcher, to aims_lab.
ScenarioCSubstringMatch ==
   direct.status = "ok" =>
      \A i \in DOMAIN store.researchers :
         ScenarioC(store.researchers[i]) =>
            /\ getLabs[1].lab_id = "aims_lab"
            /\ ScoresOfAims[1] = ScoreSubstring
            /\ \A j \in DOMAIN getLabs : ScoresOfAims[j] # ScoreExact
            /\ Cardinality(LabLinksFrom(store.researchers[i].researcher_id)) = 1
            /\ \A k \in LabLinksFrom(store.researchers[i].researcher_id) :
                  direct.data.links[k].target = "aims_lab"

\* A snapshot was assembled from an advisor-less researcher with lab names
\* ["AIMS"].
ScenarioCWitness ==
   /\ direct.status = "ok"
   /\ \E i \in DOMAIN store.researchers :
         /\ ScenarioC(store.researchers[i])
         /\ store.researchers[i].researcher_id = "r1"

\* The tokens of the free-text name as stated: split on word and camel-case
\* boundaries, those longer than 2 characters, normalized.
StatedResearcherTokens(researcherLabName) ==
   [i \in DOMAIN SelectSeq(SplitWords(Chars(researcherLabName)), LongWord) |->
      normalize(SelectSeq(SplitWords(Chars(researcherLabName)), LongWord)[i])]

\* The tokens of a lab as stated: its id split on '_' and its name on word
\* boundaries, those longer than 2 characters, normalized.
StatedLabTokens(lab) ==
   [i \in DOMAIN SelectSeq(SplitUnderscore(Chars(lab.lab_id))
                             \o SplitWords(Chars(lab.name)), LongWord) |->
      normalize(SelectSeq(SplitUnderscore(Chars(lab.lab_id))
                            \o SplitWords(Chars(lab.name)), LongWord)[i])]

StatedMatches(words, others) ==
   Cardinality({i \in DOMAIN words :
      \E j \in DOMAIN others :
         \/ includes(others[j], words[i])
         \/ includes(words[i], others[j])})

NormalizedSubstring(researcherLabName, str) ==
   \/ includes(normalize(Chars(researcherLabName)), normalize(Chars(str)))
   \/ includes(normalize(Chars(str)), normalize(Chars(researcherLabName)))

\* C18: a free-text name that neither equals a lab nor is a substring match
\* of it scores, against that lab, the number of its tokens that have a
\* containment match among the lab's tokens over the number of its tokens.
TokenScoreAsStated ==
   call.fn = "findBestLabMatch" =>
      \A j \in DOMAIN call.labs :
         (/\ ~ExactLab(call.researcherLabName, call.labs[j])
          /\ ~NormalizedSubstring(call.researcherLabName, call.labs[j].lab_id)
          /\ ~NormalizedSubstring(call.researcherLabName, call.labs[j].name)
          /\ Len(StatedResearcherTokens(call.researcherLabName)) > 0)
         => result.scores[j][1] * Len(StatedResearcherTokens(call.researcherLabName))
               = result.scores[j][2]
                    * StatedMatches(StatedResearcherTokens(call.researcherLabName),
                                    StatedLabTokens(call.labs[j]))

\* C19: the paper links of a snapshot are, one for one, the paper-edge
\* records whose two ids are fetched researchers, and its advisor links,
\* directed advisee to advisor, the advisor-edge records whose two ids are;
\* a record naming an absent researcher gives no link and no node.
OneLinkPerValidEdge ==
   direct.status = "ok" =>
      LET validPaper == {i \in DOMAIN store.paperEdges :
             /\ Fetched(store.paperEdges[i].researcher_one_id)
             /\ Fetched(store.paperEdges[i].researcher_two_id)}
          validAdvisor == {i \in DOMAIN store.advisorEdges :
             /\ Fetched(store.advisorEdges[i].advisee_id)
             /\ Fetched(store.advisorEdges[i].advisor_id)}
          links == direct.data.links
      IN /\ Cardinality(LinksOfType("paper")) = Cardinality(validPaper)
         /\ Cardinality(LinksOfType("advisor")) = Cardinality(validAdvisor)
         /\ \A k \in LinksOfType("paper") : \E i \in validPaper :
               /\ links[k].source = store.paperEdges[i].researcher_one_id
               /\ links[k].target = store.paperEdges[i].researcher_two_id
         /\ \A i \in validPaper : \E k \in LinksOfType("paper") :
               /\ links[k].source = store.paperEdges[i].researcher_one_id
               /\ links[k].target = store.paperEdges[i].researcher_two_id
         /\ \A k \in LinksOfType("advisor") : \E i \in validAdvisor :
               /\ links[k].source = store.advisorEdges[i].advisee_id
               /\ links[k].target = store.advisorEdges[i].advisor_id
         /\ \A i \in validAdvisor : \E k \in LinksOfType("advisor") :
               /\ links[k].source = store.advisorEdges[i].advisee_id
               /\ links[k].target = store.advisorEdges[i].advisor_id
         /\ Len(direct.data.nodes) = Len(store.researchers) + Len(getLabs)

\* A snapshot was assembled from a paper edge naming an absent researcher
\* and an advisor edge between two fetched researchers.
OneLinkPerValidEdgeWitness ==
   /\ direct.status = "ok"
   /\ \E i \in DOMAIN store.paperEdges : ~Fetched(store.paperEdges[i].researcher_two_id)
   /\ LinksOfType("paper") = {}
   /\ \E k \in LinksOfType("advisor") :
         direct.data.links[k].source # direct.data.links[k].target

\* C20: the nodes of a snapshot are one researcher node (val 1) per fetched
\* researcher record followed by one lab node (val 2) per registry entry,
\* and nothing else, whichever edge and annotation records were fetched.
OneNodePerRecord ==
   direct.status = "ok" =>
      LET nodes == direct.data.nodes
          n == Len(store.researchers)
      IN /\ Len(nodes) = n + Len(getLabs)
         /\ \A i \in 1..n :
               /\ nodes[i].id = store.researchers[i].researcher_id
               /\ nodes[i].name = store.researchers[i].name
               /\ nodes[i].type = "researcher"
               /\ nodes[i].val = 1
         /\ \A j \in DOMAIN getLabs :
               /\ nodes[n + j].id = getLabs[j].lab_id
               /\ nodes[n + j].name = getLabs[j].name
               /\ nodes[n + j].type = "lab"
               /\ nodes[n + j].val = 2

\* A snapshot was assembled from two researchers while the annotation
\* lookups failed and an edge record was dropped.
OneNodePerRecordWitness ==
   /\ direct.status = "ok"
   /\ Len(store.researchers) = MaxResearchers
   /\ Len(store.paperEdges) > 0
   /\ LinksOfType("paper") = {}
   /\ \A i \in DOMAIN direct.data.nodes :
         ~Has(direct.data.nodes[i], "influence") /\ ~Has(direct.data.nodes[i], "about")

\* The researcher nodes of the snapshot.
ResearcherNodes ==
   {i \in DOMAIN direct.data.nodes : direct.data.nodes[i].type = "researcher"}

\* The tags of the publications a node carries.
PaperTags(node) ==
   UNION {IF Has(node.papers[k], "tags") THEN Range(node.papers[k].tags) ELSE {} :
            k \in DOMAIN node.papers}

\* C21: the tag list of every researcher node holds exactly the tags of the
\* researcher's publications, each once, in strictly ascending order of
\* UTF-16 code units; tags "nlp", "NLP", "vision" give <<"NLP", "nlp", "vision">>.
TagsSortedUnion ==
   direct.status = "ok" =>
      \A i \in ResearcherNodes :
         /\ Range(direct.data.nodes[i].tags) = PaperTags(direct.data.nodes[i])
         /\ \A k \in 1..(Len(direct.data.nodes[i].tags) - 1) :
               StringLess(direct.data.nodes[i].tags[k], direct.data.nodes[i].tags[k + 1])
         /\ PaperTags(direct.data.nodes[i]) = {"nlp", "NLP", "vision"}
               => direct.data.nodes[i].tags = <<"NLP", "nlp", "vision">>

\* A node was built from a publication tagged <<"nlp", "NLP", "vision">> and
\* another that repeats two of these tags.
TagsSortedUnionWitness ==
   /\ direct.status = "ok"
   /\ \E i \in ResearcherNodes :
         /\ direct.data.nodes[i].tags = <<"NLP", "nlp", "vision">>
         /\ Len(direct.data.nodes[i].papers) = 2
         /\ direct.data.nodes[i].papers[1].tags = <<"nlp", "NLP", "vision">>

\* The records of a table of the store kept under the given researcher id.
RecordsOf(table, id) == {k \in DOMAIN table : table[k].researcher_id = id}

\* A stored influence that is a number, or a string that is a decimal numeral.
NumericValue(value) ==
   \/ value.type = "number"
   \/ /\ value.type = "string"
      /\ Chars(value.str) # <<>>
      /\ \A k \in DOMAIN Chars(value.str) : Chars(value.str)[k] \in DigitChars

ValueOf(value) ==
   IF value.type = "number" THEN value.n ELSE DecimalValue(Chars(value.str))

\* C22: a node carries an influence only if the stored value is numeric and
\* lies within 0..100, and then carries that value; a stored value that is
\* not numeric or lies outside 0..100 leaves the field absent.
InfluenceAbsentUnlessValid ==
   direct.status = "ok" =>
      \A i \in ResearcherNodes :
         Has(direct.data.nodes[i], "influence") =>
            \E k \in RecordsOf(store.metrics, direct.data.nodes[i].id) :
               /\ Has(store.metrics[k], "influence")
               /\ NumericValue(store.metrics[k].influence)
               /\ ValueOf(store.metrics[k].influence) >= 0
               /\ ValueOf(store.metrics[k].influence) <= 100
               /\ direct.data.nodes[i].influence = ValueOf(store.metrics[k].influence)

\* C23: a researcher whose biography is missing from the store, because no
\* description is stored or because the stored one has no about, gets a node
\* without the about field.
AboutAbsentWhenMissing ==
   direct.status = "ok" =>
      \A i \in ResearcherNodes :
         (\A k \in RecordsOf(store.descriptions, direct.data.nodes[i].id) :
             ~Has(store.descriptions[k], "about"))
         => ~Has(direct.data.nodes[i], "about")

\* The snapshot has a node of the given type with the given id.
NodeOfType(type, id) ==
   \E i \in DOMAIN direct.data.nodes :
      direct.data.nodes[i].type = type /\ direct.data.nodes[i].id = id

\* C25: in an assembled snapshot both ends of a paper link and of an advisor
\* link are researcher nodes, and a researcher_lab link goes from a
\* researcher node to a lab node.
EndpointsOfRightType ==
   direct.status = "ok" =>
      \A k \in DOMAIN direct.data.links :
         IF direct.data.links[k].type = "researcher_lab"
         THEN /\ NodeOfType("researcher", direct.data.links[k].source)
              /\ NodeOfType("lab", direct.data.links[k].target)
         ELSE /\ direct.data.links[k].type \in {"paper", "advisor"}
              /\ NodeOfType("researcher", direct.data.links[k].source)
              /\ NodeOfType("researcher", direct.data.links[k].target)

\* A snapshot with a link of each of the three types.
EndpointsOfRightTypeWitness ==
   /\ direct.status = "ok"
   /\ LinksOfType("paper") # {}
   /\ LinksOfType("advisor") # {}
   /\ LinksOfType("researcher_lab") # {}

\* C26: a free-text name that normalizes to the empty string resolves to no
\* lab.
EmptyNameNoMatch ==
   (call.fn = "findBestLabMatch" /\ normalize(Chars(call.researcherLabName)) = <<>>)
      => result.lab = NoLab

\* C24: whatever order the concurrent requests of a pass complete in, the
\* pass hands on the scans and lookups in the order it asked for them and
\* returns the snapshot that is a function of the store's records and the
\* registry alone, so two passes over the same records return the same
\* nodes and links in the same order.
SnapshotFunctionOfInputs ==
   call.fn = "fetchGraphData" =>
      /\ result.stage # "scans" =>
            \A k \in 1..3 : result.scans[k] = ScanOutcome(k, store, call.failing)
      /\ result.stage = "nodes" =>
            \A k \in 1..2 :
               result.lookups[k] =
                  LookupOutcome(k, store, call.failing, store.researchers)
      /\ result.returned # Pending =>
            result.returned = fetchGraphData(store, call.failing)

\* A pass returned a snapshot of two researcher nodes after the second
\* researcher's publications arrived before the first's.
SnapshotFunctionOfInputsWitness ==
   /\ call.fn = "fetchGraphData"
   /\ result.returned # Pending
   /\ result.returned.status = "ok"
   /\ result.stage = "nodes"
   /\ result.completed = <<2, 1>>
   /\ result.returned.data.nodes[1].id # result.returned.data.nodes[2].id

\* C29: for each modal, however many close requests arrive while it is
\* closing, one timeout is pending at most, onClose is called once when it
\* fires, and isClosing is false again afterwards.
OneCloseCall ==
   \A m \in Modals :
      /\ modal[m].timeouts <= 1
      /\ modal[m].onCloseCalls <= 1
      /\ modal[m].timeouts = 1 => modal[m].isClosing /\ modal[m].onCloseCalls = 0
      /\ modal[m].timeouts = 0 =>
            /\ ~modal[m].isClosing
            /\ modal[m].requests > 0 => modal[m].onCloseCalls = 1

\* Each modal was closed after several close requests.
OneCloseCallWitness ==
   \A m \in Modals :
      /\ modal[m].requests = MaxCloseRequests
      /\ modal[m].onCloseCalls = 1
      /\ ~modal[m].isOpen

UserMessages(messages) == {i \in DOMAIN messages : messages[i].isUser}

\* C27: a send attempt made while isLoading is true, or with an input that
\* is empty or blank, appends no message and sends no request, and at most
\* one request is outstanding at any time.
SendGuarded ==
   /\ [](Len(chat.requests) <= 1)
   /\ [][(chat.isLoading \/ trim(Chars(chat.inputValue)) = <<>>) =>
            /\ Cardinality(UserMessages(chat'.messages))
                  <= Cardinality(UserMessages(chat.messages))
            /\ Len(chat'.requests) <= Len(chat.requests)]_vars

\* A send attempt was ignored while a request was outstanding.
SendGuardedWitness ==
   /\ chat.lastSend = "ignored"
   /\ chat.isLoading
   /\ Len(chat.requests) = 1
   /\ ChatShown

\* C28: every message of the list belongs to the paper the modal shows: a
\* reply to a question about another paper is never in it.
ReplyInOwnConversation ==
   chat.paper # "none" =>
      \A i \in DOMAIN chat.messages : chat.messages[i].document_id = chat.paper

\* C30: in the search bar selectedIndex lies between -1 and
\* searchResults.length - 1, and searchResults holds at most 10 entries.
SelectedIndexInRange ==
   /\ search.selectedIndex >= -1
   /\ search.selectedIndex <= Len(search.searchResults) - 1
   /\ Len(search.searchResults) <= 10

====
